---- MODULE Spec2Model ----
(***************************************************************************)
(* The simulation kernel's scheduler, EngineImpl::run, with the queues it  *)
(* drives: the run queue (actors_to_run_ / actors_that_ran_), the deferred *)
(* task queue, the timer heap, the models' done and failed action sets and *)
(* the actor trash.  Maestro's position in run() is pc; the user contexts  *)
(* resumed by run_all_actors are the members of ctx_running.               *)
(***************************************************************************)
EXTENDS Integers, Sequences, FiniteSets, TLC

\* ------------------------------------------------------------- bounds
MaxActors   == 3   \* pids ever created (deployment + actor creation)
MaxSimcalls == 2   \* simcalls issued by user code during one simulation
MaxTasks    == 2   \* deferred tasks ever enqueued
MaxDur      == 2   \* longest duration of an activity or of a timer
NModels     == 2   \* models registered in models_
NHosts      == 2   \* hosts an activity may be set on
MaxCalls    == 3   \* suspend, resume and cancel calls made on one activity
MaxWork     == 2   \* cost of an action, in seconds of the whole cpu
MaxPenalty  == 2   \* largest sharing penalty of an action
MaxNow      == 3   \* the clock an action is followed up to
MaxBw       == 2   \* largest bandwidth of a disk
MaxIo       == 2   \* Io actions started on a disk
MaxSize     == 1   \* largest size of an Io
MaxPstates  == 2   \* p-states of a Cpu
MaxCores    == 2   \* cores a Cpu can be given
MaxActs     == 3   \* activities given to wait_any / test_any
MaxExecs    == 2   \* actions given to the two Cpu models
MaxAdvances == 2   \* advances of the clock of the two Cpu models
MaxVars     == 3   \* variables of a system given to the solver
MaxUpdates  == 1   \* updates of the disk model

InitActors == MaxActors - 1   \* at most so many actors are started by the deployment

Pids   == 1..MaxActors
Models == 1..NModels

\* The simcalls user code issues (simix::Simcall); "NONE" is no pending call.
Simcalls == {"YIELD", "EXEC", "LOCK", "UNLOCK", "SLEEP", "ASYNC", "CREATE", "KILL"}

VARIABLES
  pc,                 \* maestro's position in EngineImpl::run
  time,               \* run()'s local `time`
  again,              \* run()'s local `again`
  clock,              \* surf_get_clock(), the virtual time NOW
  actor_list_,        \* pids of the live actors
  daemons_,           \* the daemons among them
  actors_to_run_,     \* run queue
  actors_that_ran_,   \* the actors of the current sub-round
  actors_to_destroy_, \* the trash
  ctx_running,        \* user contexts resumed by run_all and not yet back at a simcall
  h_i,                \* position of the simcall loop in actors_that_ran_
  simcall,            \* pid -> simcall_.call_
  waiting_synchro_,   \* pid -> id of the action of the activity waited for, 0 if none
  wannadie,           \* pid -> context_->wannadie()
  nsimcalls,          \* simcalls issued so far
  next_pid,           \* next pid to give
  tasks,              \* EngineImpl::tasks
  tasksTemp,          \* execute_tasks' local vector
  task_i,             \* execute_tasks' position in tasksTemp
  et_site,            \* the call of execute_tasks being served
  et_result,          \* what that call returned
  next_task,          \* next task id to give
  timers,             \* kernel_timers(): records [date, seq, actor]
  next_timer,         \* next timer sequence id
  started,            \* started actions of all models: [id, model, finish, activity]
  done_set,           \* model -> done action set, in extraction order
  failed_set,         \* model -> failed action set, in extraction order
  \* ---- observations of the run (history)
  to_run_at_call,     \* actors_to_run_ when run_all_actors was called
  at_call,            \* the actors' state when run_all_actors was called
  did,                \* pid -> what its context did in this sub-round
  exec_order,         \* the order in which the contexts really executed
  issuers,            \* actors that came back from run_all with a simcall, this sub-round
  handled,            \* issuers whose simcall was handled in this sub-round
  unhandled,          \* actors with an issued simcall not yet given to simcall_handle
  task_log,           \* ids of the tasks executed, in order
  et_nonempty,        \* whether tasks was non-empty when execute_tasks was called
  et_sweeps,          \* swaps done by the current call of execute_tasks
  round_to_run,       \* actors_to_run_ at the beginning of the round
  round_ran,          \* actors whose context was resumed in this round
  round_clock,        \* clock at the beginning of the round
  solved,             \* surf_solve was called in this round
  round_dead,         \* actors that died in this round, in the order of their death
  released,           \* actors released by the empty_trash of this round, in order
  diag,               \* entries printed by display_all_actor_status in this round
  n_deadlock,         \* calls of Engine::on_deadlock
  n_end,              \* calls of Engine::on_simulation_end
  \* ---- one Raw synchronization (RawImpl) and the actor that waits on it
  host_,              \* RawImpl::host_
  timeout_,           \* RawImpl::timeout_
  state_,             \* ActivityImpl::state_
  surf_action_,       \* ActivityImpl::surf_action_: the action, NoAction for nullptr
  simcalls_,          \* ActivityImpl::simcalls_: the issuers of the waiting simcalls
  issuer_,            \* the waiting actor: wannadie, exception_, waiting_synchro_, simcall
  raw_run_list,       \* the run list simcall_answer pushes the actor to
  n_finish_callback,  \* calls of finish_callback_
  n_post,             \* calls of RawImpl::post
  calls,              \* the operations called on the activity so far, in order
  cpu_action,         \* a CpuAction: state, cost, remains, sharing_penalty_, penalty of its variable
  cpu_now,            \* the simulated clock the action runs under
  cpu_signals,        \* what CpuAction::on_state_change has emitted
  cpu_snap,           \* the action as it was when it was last suspended
  disk,               \* a DiskImpl: bandwidths, constraints, sealed_, is_on_
  maxmin_system,      \* the constraints of the disk model's lmm::System, in creation order
  disk_signals,       \* emissions of s4u::Disk::on_state_change
  disk_calls,         \* the operations called on the disk so far, in order
  io_actions,         \* the DiskS19Actions created so far, in creation order
  lmm_variables,      \* the variables of the disk model's lmm::System, in creation order
  io_updates,         \* the updates of the disk model so far: one per advance of the clock
  lmm_bounds,         \* a system given to the solver: the bounds of its constraints
  lmm_vs,             \* its variables
  lmm_values,         \* the shares the solver has given them, <<>> before
  cpu,                \* a Cpu: speed_per_pstate_, pstate_, speed_, core_count_, sealed_, its constraint
  cpu_calls,          \* the operations called on the Cpu so far, in order
  speed_signals,      \* emissions of s4u::Host::on_speed_change
  activities,         \* the states of the activities given to wait_any / test_any, in input order
  waitany,            \* the simcall: its observer (timeout_, result_) and where it stands
  waitany_calls,      \* the calls made so far
  fat_tree,           \* the description given to create_fatTree_zone: parameters, bandwidth, latency
  fat_tree_result,    \* what the call gave: "none" before it, "zone" or "invalid_argument"
  netzones,           \* the zones created under the root netzone
  full_actions,       \* the actions of a Cpu model that is updated in full
  lazy_actions,       \* the same actions in a Cpu model that is updated lazily
  action_heap,        \* the action heap of the lazy model: entries [date, id]
  model_now,          \* the clock of the two models, a fraction
  full_done,          \* what the full model has finished: entries [id, date]
  lazy_done,          \* what the lazy model has finished
  advances,           \* the advances of the clock so far
  torus,              \* a TorusZone: dimensions_, loopback and limiter, the private links by position
  torus_route,        \* the last get_local_route: its endpoints and the route it gave
  dep_req1,           \* two simcalls given to simcall_check_dependency
  dep_req2,
  dep_result,         \* what it returned for (req1, req2) and for (req2, req1); <<>> before
  mc_actor,           \* an actor in a waitany or testany: the call and, of each communication, whether it is enabled
  mc_procstate,       \* its ActorState in a state of the exploration: times_considered_, done
  mc_chosen,          \* what the calls of MC_state_choose_request_for_process gave, in order
  model_name,         \* the name of each resource model of the program
  models_,            \* EngineImpl: the registered models, in registration order
  models_prio_,       \* EngineImpl: the registered models by name
  add_model_call,     \* the last call of add_model: its arguments and the assertion that failed
  disk_action_states, \* a DiskAction: its state at construction, then after each set_state
  disk_action_signals \* the emissions of DiskAction::on_state_change: previous and new state

kernel_vars == <<actor_list_, daemons_, actors_to_run_, actors_that_ran_, actors_to_destroy_,
                 simcall, waiting_synchro_, wannadie, nsimcalls, next_pid>>
task_vars   == <<tasks, tasksTemp, task_i, et_site, et_result, next_task>>
model_vars  == <<timers, next_timer, started, done_set, failed_set>>
loop_vars   == <<pc, time, again, clock, ctx_running, h_i>>
hist_vars   == <<round_dead, released, to_run_at_call, at_call, did, exec_order, issuers, handled, unhandled, task_log, et_nonempty,
                 et_sweeps,
                 round_to_run, round_ran, round_clock, solved, diag, n_deadlock, n_end>>
engine_vars == <<kernel_vars, task_vars, model_vars, loop_vars, hist_vars>>
raw_vars    == <<host_, timeout_, state_, surf_action_, simcalls_, issuer_, raw_run_list,
                 n_finish_callback, n_post, calls>>
cpu_vars    == <<cpu_action, cpu_now, cpu_signals, cpu_snap>>
disk_vars   == <<disk, maxmin_system, disk_signals, disk_calls>>
io_vars     == <<io_actions, lmm_variables, io_updates>>
solver_vars == <<lmm_bounds, lmm_vs, lmm_values>>
host_vars   == <<cpu, cpu_calls, speed_signals>>
waitany_vars == <<activities, waitany, waitany_calls>>
zone_vars   == <<fat_tree, fat_tree_result, netzones>>
model_vars2 == <<full_actions, lazy_actions, action_heap, model_now, full_done, lazy_done, advances>>
torus_vars  == <<torus, torus_route>>
dep_vars    == <<dep_req1, dep_req2, dep_result>>
choose_vars == <<mc_actor, mc_procstate, mc_chosen>>
registry_vars == <<model_name, models_, models_prio_, add_model_call>>
signal_vars == <<disk_action_states, disk_action_signals>>
last_vars   == <<torus_vars, dep_vars, choose_vars, registry_vars, signal_vars>>
later_vars  == <<io_vars, solver_vars, host_vars, waitany_vars, zone_vars, model_vars2, last_vars>>
before_last == <<engine_vars, raw_vars, cpu_vars, disk_vars, io_vars, solver_vars, host_vars, waitany_vars,
                 zone_vars, model_vars2>>
outside_torus == <<before_last, dep_vars, choose_vars, registry_vars, signal_vars>>
outside_dep == <<before_last, torus_vars, choose_vars, registry_vars, signal_vars>>
outside_choose == <<before_last, torus_vars, dep_vars, registry_vars, signal_vars>>
outside_registry == <<before_last, torus_vars, dep_vars, choose_vars, signal_vars>>
side_vars   == <<raw_vars, cpu_vars, disk_vars, later_vars>>
outside_raw == <<engine_vars, cpu_vars, disk_vars, later_vars>>
outside_cpu == <<engine_vars, disk_vars, later_vars>>
outside_disk == <<engine_vars, raw_vars, cpu_vars, later_vars>>
outside_io  == <<engine_vars, raw_vars, cpu_vars, solver_vars, host_vars, waitany_vars, zone_vars, model_vars2, last_vars>>
outside_solver == <<engine_vars, raw_vars, cpu_vars, disk_vars, io_vars, host_vars, waitany_vars, zone_vars, model_vars2, last_vars>>
outside_host == <<engine_vars, raw_vars, cpu_vars, disk_vars, io_vars, solver_vars, waitany_vars, zone_vars, model_vars2, last_vars>>
outside_waitany == <<engine_vars, raw_vars, cpu_vars, disk_vars, io_vars, solver_vars, host_vars, zone_vars, model_vars2, last_vars>>
outside_zone == <<engine_vars, raw_vars, cpu_vars, disk_vars, io_vars, solver_vars, host_vars, waitany_vars, model_vars2, last_vars>>
outside_models == <<engine_vars, raw_vars, cpu_vars, disk_vars, io_vars, solver_vars, host_vars, waitany_vars, zone_vars, last_vars>>
vars == <<engine_vars, side_vars>>

\* ------------------------------------------------------------- helpers
Range(s) == {s[i] : i \in 1..Len(s)}

Min(S) == CHOOSE x \in S : \A y \in S : x <= y

EmptySets == [m \in Models |-> <<>>]

\* A set of pids as the sequence in increasing pid order (std::map iteration).
RECURSIVE ByPid(_)
ByPid(S) == IF S = {} THEN <<>> ELSE <<Min(S)>> \o ByPid(S \ {Min(S)})

\* A set of timers as the sequence in heap order: by date, then by sequence id.
RECURSIVE ByDate(_)
ByDate(S) ==
  IF S = {} THEN <<>>
  ELSE LET x == CHOOSE y \in S : \A z \in S :
                  y.date < z.date \/ (y.date = z.date /\ y.seq <= z.seq)
       IN  <<x>> \o ByDate(S \ {x})

\* A set of actions as the sequence in increasing id order.
RECURSIVE ById(_)
ById(S) ==
  IF S = {} THEN <<>>
  ELSE LET x == CHOOSE y \in S : \A z \in S : y.id <= z.id
       IN  <<x>> \o ById(S \ {x})

\* The sequences that list every member of S once.
RECURSIVE Perms(_)
Perms(S) ==
  IF S = {} THEN {<<>>}
  ELSE UNION {{<<x>> \o p : p \in Perms(S \ {x})} : x \in S}

RECURSIVE Concat(_, _)
Concat(f, n) == IF n = 0 THEN <<>> ELSE Concat(f, n - 1) \o f[n]

\* ------------------------------------------------------------- kernel primitives
\* EngineImpl::add_actor_to_run_list_no_check
add_actor_to_run_list_no_check(q, a) == Append(q, a)

\* An add_actor_to_run_list that does not look the actor up.
add_actor_to_run_list_without_find(q, a) == Append(q, a)

\* EngineImpl::add_actor_to_run_list
add_actor_to_run_list(q, a) == IF a \in Range(q) THEN q ELSE Append(q, a)

\* EngineImpl::has_actors_to_run, as run() uses it
has_actors_to_run == actors_to_run_ # <<>>

\* timer::Timer::next(): the date of the earliest timer, -1 when there is none
TimerNext == IF timers = {} THEN -1 ELSE Min({t.date : t \in timers})

\* An actor that a timer, a task or an unlock may still answer: alive, not
\* marked to die, and blocked in the simcall k.
Blocked(a, k) == a \in actor_list_ /\ ~wannadie[a] /\ simcall[a] = k

\* ActorImpl::simcall_answer on each actor of the sequence as, in order: the
\* pending call is reset and the actor is pushed to the run queue.
RECURSIVE AnswerAll(_, _)
AnswerAll(q, as) ==
  IF as = <<>> THEN q
  ELSE AnswerAll(add_actor_to_run_list_no_check(q, Head(as)), Tail(as))

Answered(sc, S) == [a \in Pids |-> IF a \in S THEN "NONE" ELSE sc[a]]

\* ActorImpl::kill on each actor of the sequence vs, in order ("cancel their
\* actions, mark them to die and reschedule them"): the run queue afterwards.
RECURSIVE KillRunQueue(_, _)
KillRunQueue(q, vs) ==
  IF vs = <<>> THEN q
  ELSE KillRunQueue(add_actor_to_run_list(q, Head(vs)), Tail(vs))

\* The actions canceled by killing vs: those of the activities the victims wait
\* for, in kill order. A canceled action fails; one with no date (a Raw
\* synchro without timeout) is simply dropped.
KillCanceled(vs, m) ==
  LET hit(v) == {x \in started : x.activity = v /\ x.model = m /\ x.finish >= 0}
      one(v) == IF hit(v) = {} THEN <<>>
                ELSE <<[(CHOOSE x \in hit(v) : TRUE) EXCEPT !.activity = 0]>>
  IN  Concat([i \in 1..Len(vs) |-> one(vs[i])], Len(vs))

Kill(vs, after) ==
  /\ wannadie' = [a \in Pids |-> wannadie[a] \/ a \in Range(vs)]
  /\ waiting_synchro_' = [a \in Pids |-> IF a \in Range(vs) THEN 0 ELSE waiting_synchro_[a]]
  /\ started' = {x \in started : x.activity \notin Range(vs)}
  /\ failed_set' = [m \in Models |-> failed_set[m] \o KillCanceled(vs, m)]
  /\ actors_to_run_' = AnswerAll(KillRunQueue(actors_to_run_, vs), after)

\* The part of the state that the user contexts touch: what run_all_actors finds
\* when it is called, and what it has when no call is under way.
ActorsNow == [actor_list_ |-> actor_list_, daemons_ |-> daemons_, simcall |-> simcall,
              wannadie |-> wannadie, trash |-> actors_to_destroy_]

NoCall == [actor_list_ |-> {}, daemons_ |-> {}, simcall |-> [a \in Pids |-> "NONE"],
           wannadie |-> [a \in Pids |-> FALSE], trash |-> <<>>]

NoStep == [a \in Pids |-> "NONE"]

\* nullptr for surf_action_, and the actor before it waits on anything.
NoAction == [state |-> "NONE", duration |-> 0, host |-> 0, activity |-> "nullptr",
             sharing_penalty |-> 0]

NoIssuer == [pid |-> 0, wannadie |-> FALSE, exception_ |-> "none", waiting_synchro_ |-> "nullptr",
             call_ |-> "NONE"]

\* ------------------------------------------------------------- initial state
\* The deployment has started 1..InitActors actors, in pid order; run() is about
\* to enter its loop (time = 0, debug/breakpoint at its default, -1).
EngineInit ==
  /\ \E n \in 1..InitActors :
       /\ actor_list_ = 1..n
       /\ actors_to_run_ = [i \in 1..n |-> i]
       /\ next_pid = n + 1
  /\ pc = "round" /\ time = 0 /\ again = FALSE /\ clock = 0
  /\ daemons_ = {} /\ actors_that_ran_ = <<>> /\ actors_to_destroy_ = <<>>
  /\ ctx_running = {} /\ h_i = 1
  /\ simcall = [a \in Pids |-> "NONE"]
  /\ waiting_synchro_ = [a \in Pids |-> 0]
  /\ wannadie = [a \in Pids |-> FALSE]
  /\ nsimcalls = 0
  /\ tasks = <<>> /\ tasksTemp = <<>> /\ task_i = 1
  /\ et_site = "none" /\ et_result = FALSE /\ next_task = 1
  /\ timers = {} /\ next_timer = 1
  /\ started = {} /\ done_set = EmptySets /\ failed_set = EmptySets
  /\ round_dead = <<>> /\ released = <<>>
  /\ to_run_at_call = <<>> /\ at_call = NoCall /\ did = NoStep /\ exec_order = <<>> /\ handled = <<>> /\ unhandled = {}
  /\ issuers = {} /\ et_sweeps = 0
  /\ task_log = <<>> /\ et_nonempty = FALSE
  /\ round_to_run = <<>> /\ round_ran = {} /\ round_clock = 0 /\ solved = FALSE
  /\ diag = <<>> /\ n_deadlock = 0 /\ n_end = 0

\* The engine before run(), with one actor deployed.
EngineOne == EngineInit /\ next_pid = 2

\* No activity is looked at while the scheduler is.
RawIdle ==
  /\ host_ = 0 /\ timeout_ = 0 /\ state_ = "WAITING" /\ surf_action_ = NoAction
  /\ simcalls_ = <<>> /\ issuer_ = NoIssuer /\ raw_run_list = <<>>
  /\ n_finish_callback = 0 /\ n_post = 0 /\ calls = <<>>

\* No action either.
NoCpuAction ==
  [state |-> "INITED", cost |-> 0, remains |-> 0, sharing_penalty_ |-> 0, penalty |-> 0,
   suspended_ |-> "RUNNING"]

NoSnap == [phase |-> "none", remains |-> 0, state |-> "INITED", finish |-> 0, penalty |-> 0, now |-> 0]

CpuIdle ==
  /\ cpu_action = NoCpuAction /\ cpu_now = 0 /\ cpu_signals = <<>> /\ cpu_snap = NoSnap

\* No disk either.
NoDisk ==
  [read_bw_ |-> [peak |-> 0, scale |-> 1], write_bw_ |-> [peak |-> 0, scale |-> 1],
   constraint_read_ |-> 0, constraint_write_ |-> 0, constraint_ |-> 0,
   sealed_ |-> FALSE, is_on_ |-> FALSE]

DiskIdle ==
  /\ disk = NoDisk /\ maxmin_system = <<>> /\ disk_signals = 0 /\ disk_calls = <<>>

\* No Io on the disk.
IoIdle == io_actions = <<>> /\ lmm_variables = <<>> /\ io_updates = 0

\* No system is given to the solver.
SolverIdle == lmm_bounds = <<>> /\ lmm_vs = <<>> /\ lmm_values = <<>>

\* No Cpu.
NoCpu == [sealed_ |-> FALSE]

HostIdle == cpu = NoCpu /\ cpu_calls = <<>> /\ speed_signals = 0

\* No simcall: nothing is waited for.
NoWaitany == [call |-> "none", timeout_ |-> -1, result_ |-> -1, status |-> "none",
              timed_out |-> FALSE, seen |-> <<>>]

WaitanyIdle == activities = <<>> /\ waitany = NoWaitany /\ waitany_calls = 0

\* No description of a zone.
NoFatTree == [levels |-> 0, down |-> <<>>, up |-> <<>>, count |-> <<>>, bandwidth |-> 0, latency |-> 0]

ZoneIdle == fat_tree = NoFatTree /\ fat_tree_result = "none" /\ netzones = 0

\* The fraction n / d, d > 0, in lowest terms.
RECURSIVE GCD(_, _)
GCD(a, b) == IF b = 0 THEN a ELSE GCD(b, a % b)

Q(n, d) ==
  LET g == GCD(IF n < 0 THEN -n ELSE n, d)
  IN  IF n >= 0 THEN [num |-> n \div g, den |-> d \div g]
      ELSE [num |-> -((-n) \div g), den |-> d \div g]

\* The two Cpu models with no action, at date 0.
ModelsIdle ==
  /\ full_actions = <<>> /\ lazy_actions = <<>> /\ action_heap = {}
  /\ model_now = Q(0, 1) /\ full_done = {} /\ lazy_done = {} /\ advances = 0

\* No torus, no route asked.
NoTorus == [dimensions_ |-> <<>>]

NoRoute == [called |-> FALSE]

TorusIdle == torus = NoTorus /\ torus_route = NoRoute

\* No simcall to compare.
NoRequest == [issuer_ |-> 0, call_ |-> "NONE", timeout |-> -1, mbox |-> 0, buff |-> 0, comm |-> <<>>]

DepIdle == dep_req1 = NoRequest /\ dep_req2 = NoRequest /\ dep_result = <<>>

\* No actor to choose a transition for.
ChooseIdle ==
  /\ mc_actor = [call_ |-> "NONE", comms |-> <<>>]
  /\ mc_procstate = [times_considered_ |-> 0, done |-> FALSE]
  /\ mc_chosen = <<>>

\* No call of add_model yet.
NoAddModel == [model |-> 0, dependencies |-> {}, failed |-> "none"]

\* No model to register.
RegistryIdle ==
  /\ model_name = <<>> /\ models_ = <<>> /\ models_prio_ = <<>> /\ add_model_call = NoAddModel

\* No disk action whose signals are counted.
SignalIdle == disk_action_states = <<>> /\ disk_action_signals = <<>>

LastIdle == TorusIdle /\ DepIdle /\ ChooseIdle /\ RegistryIdle /\ SignalIdle

LaterIdle == IoIdle /\ SolverIdle /\ HostIdle /\ WaitanyIdle /\ ZoneIdle /\ ModelsIdle /\ LastIdle

Init == EngineInit /\ RawIdle /\ CpuIdle /\ DiskIdle /\ LaterIdle

\* ------------------------------------------------------------- execute_tasks
\* An execute_tasks that returns false at once, whatever the queue holds.
ExecuteTasksSkip(site) ==
  /\ et_site' = site
  /\ et_nonempty' = (tasks # <<>>)
  /\ pc' = "et_done" /\ et_result' = FALSE /\ et_sweeps' = 0
  /\ UNCHANGED <<tasks, tasksTemp, task_i>>

\* The call of execute_tasks from the place `site` of run(): the early return
\* on an empty queue, else the first swap of the do-loop.
ExecuteTasksEnter(site) ==
  /\ et_site' = site
  /\ et_nonempty' = (tasks # <<>>)
  /\ IF tasks = <<>>
     THEN /\ pc' = "et_done" /\ et_result' = FALSE /\ et_sweeps' = 0
          /\ UNCHANGED <<tasks, tasksTemp, task_i>>
     ELSE /\ pc' = "et_run" /\ tasksTemp' = tasks /\ tasks' = <<>> /\ task_i' = 1
          /\ et_sweeps' = 1
          /\ UNCHANGED et_result

\* What a task does when it runs: a continuation either schedules the next
\* continuation of its chain or delivers the result to the actor waiting for it.
TaskChains(t) == t.hops > 0 /\ next_task <= MaxTasks

\* for (auto& task : tasksTemp) task();
RunTask ==
  /\ pc = "et_run" /\ task_i <= Len(tasksTemp)
  /\ LET t == tasksTemp[task_i] IN
       /\ task_log' = Append(task_log, t.id)
       /\ task_i' = task_i + 1
       /\ IF TaskChains(t)
          THEN /\ tasks' = Append(tasks, [id |-> next_task, actor |-> t.actor, hops |-> t.hops - 1])
               /\ next_task' = next_task + 1
               /\ UNCHANGED <<simcall, actors_to_run_>>
          ELSE /\ UNCHANGED <<tasks, next_task>>
               /\ IF Blocked(t.actor, "ASYNC")
                  THEN /\ simcall' = Answered(simcall, {t.actor})
                       /\ actors_to_run_' = AnswerAll(actors_to_run_, <<t.actor>>)
                  ELSE UNCHANGED <<simcall, actors_to_run_>>
  /\ UNCHANGED <<actor_list_, daemons_, actors_that_ran_, actors_to_destroy_,
                 waiting_synchro_, wannadie, nsimcalls, next_pid>>
  /\ UNCHANGED <<tasksTemp, et_site, et_result>>
  /\ UNCHANGED model_vars
  /\ UNCHANGED <<pc, time, again, clock, ctx_running, h_i>>
  /\ UNCHANGED side_vars
  /\ UNCHANGED <<round_dead, released, at_call, did, to_run_at_call, exec_order, handled, unhandled, et_nonempty, et_sweeps,
                 issuers, round_to_run, round_ran, round_clock, solved, diag, n_deadlock, n_end>>

\* An execute_tasks that runs the tasks it found and returns.
SweepOnce == FALSE

\* } while (not tasks.empty());
SweepAgain == tasks # <<>>

\* tasksTemp.clear(); } while (not tasks.empty()); return true;
EndSweep ==
  /\ pc = "et_run" /\ task_i > Len(tasksTemp)
  /\ IF SweepAgain
     THEN /\ tasksTemp' = tasks /\ tasks' = <<>>
          /\ et_sweeps' = et_sweeps + 1
          /\ UNCHANGED <<pc, et_result>>
     ELSE /\ pc' = "et_done" /\ et_result' = TRUE /\ tasksTemp' = <<>>
          /\ UNCHANGED <<tasks, et_sweeps>>
  /\ task_i' = 1
  /\ UNCHANGED kernel_vars
  /\ UNCHANGED <<et_site, next_task>>
  /\ UNCHANGED model_vars
  /\ UNCHANGED <<time, again, clock, ctx_running, h_i>>
  /\ UNCHANGED side_vars
  /\ UNCHANGED <<round_dead, released, at_call, did, to_run_at_call, exec_order, issuers, handled, unhandled, task_log, et_nonempty,
                 round_to_run, round_ran, round_clock, solved, diag, n_deadlock, n_end>>

\* ------------------------------------------------------------- run_all_actors
\* A sub-round loop that is never entered.
SubRoundLoopNever == FALSE

\* A sub-round loop that stops when one actor is left in the run queue.
SubRoundLoopSeveral == Len(actors_to_run_) > 1

\* while (not actors_to_run_.empty()): the test of the actor sub-round loop,
\* reached from the execute_tasks() before it or from the end of its body. When
\* it holds, run_all_actors() resumes the context of every actor of the run
\* queue; else run() goes on to the timers.
SubRoundLoop == actors_to_run_ # <<>>

SubRoundTest ==
  /\ (pc = "et_done" /\ et_site = "l294") \/ pc = "l296"
  /\ IF SubRoundLoop
     THEN /\ pc' = "run_all"
          /\ ctx_running' = Range(actors_to_run_)
          /\ to_run_at_call' = actors_to_run_
          /\ at_call' = ActorsNow
          /\ exec_order' = <<>>
          /\ round_ran' = round_ran \cup Range(actors_to_run_)
     ELSE /\ pc' = "l383"
          /\ UNCHANGED <<ctx_running, to_run_at_call, at_call, exec_order, round_ran>>
  /\ UNCHANGED kernel_vars
  /\ UNCHANGED task_vars
  /\ UNCHANGED model_vars
  /\ UNCHANGED <<time, again, clock, h_i>>
  /\ UNCHANGED side_vars
  /\ issuers' = {} /\ did' = NoStep
  /\ UNCHANGED <<round_dead, released, handled, unhandled, task_log, et_nonempty, et_sweeps, round_to_run, round_clock,
                 solved, diag, n_deadlock, n_end>>

\* What user code does when its context is resumed touches the actor alone.
UserFrame(a) ==
  /\ pc = "run_all" /\ a \in ctx_running
  /\ ctx_running' = ctx_running \ {a}
  /\ exec_order' = Append(exec_order, a)
  /\ UNCHANGED <<actors_to_run_, actors_that_ran_, waiting_synchro_, next_pid>>
  /\ UNCHANGED task_vars
  /\ UNCHANGED model_vars
  /\ UNCHANGED <<pc, time, again, clock, h_i>>
  /\ UNCHANGED side_vars
  /\ UNCHANGED <<released, at_call, to_run_at_call, handled, task_log, et_nonempty, et_sweeps, round_to_run,
                 round_ran, round_clock, solved, diag, n_deadlock, n_end>>

\* The actor runs up to its next simcall and yields to maestro.
UserIssue(a) ==
  /\ UserFrame(a)
  /\ ~wannadie[a] /\ nsimcalls < MaxSimcalls
  /\ \E k \in Simcalls :
       /\ simcall' = [simcall EXCEPT ![a] = k]
       /\ did' = [did EXCEPT ![a] = k]
  /\ nsimcalls' = nsimcalls + 1
  /\ unhandled' = unhandled \cup {a}
  /\ UNCHANGED round_dead
  /\ issuers' = issuers \cup {a}
  /\ UNCHANGED <<actor_list_, daemons_, actors_to_destroy_, wannadie>>

\* The actor's code returns, or the actor finds that it was marked to die: its
\* context stops, the actor leaves actor_list_ (and daemons_, remove_daemon) and
\* goes to the trash.
UserExit(a) ==
  /\ UserFrame(a)
  /\ actor_list_' = actor_list_ \ {a}
  /\ daemons_' = daemons_ \ {a}
  /\ actors_to_destroy_' = Append(actors_to_destroy_, a)
  /\ simcall' = [simcall EXCEPT ![a] = "NONE"]
  /\ wannadie' = [wannadie EXCEPT ![a] = FALSE]
  /\ did' = [did EXCEPT ![a] = "EXIT"]
  /\ round_dead' = Append(round_dead, a)
  /\ unhandled' = unhandled \ {a}
  /\ UNCHANGED <<nsimcalls, issuers>>

\* A run_all that gives the control back to maestro at once.
RunAllReturnedAtOnce == TRUE

\* run_all() has returned once every resumed context is back in maestro.
RunAllReturned == ctx_running = {}

\* A run_all_actors that lists the actors in the order in which their contexts
\* came back.
RunAllActorsSwapByReturn == [ran |-> exec_order, run |-> <<>>]

\* actors_to_run_.swap(actors_that_ran_); actors_to_run_.clear();
RunAllActorsSwap == [ran |-> actors_to_run_, run |-> <<>>]

RunAllActorsReturn ==
  /\ pc = "run_all" /\ RunAllReturned
  /\ actors_that_ran_' = RunAllActorsSwap.ran
  /\ actors_to_run_' = RunAllActorsSwap.run
  /\ pc' = "handle" /\ h_i' = 1 /\ handled' = <<>> /\ exec_order' = <<>>
  /\ UNCHANGED <<actor_list_, daemons_, actors_to_destroy_, simcall, waiting_synchro_,
                 wannadie, nsimcalls, next_pid>>
  /\ UNCHANGED task_vars
  /\ UNCHANGED model_vars
  /\ UNCHANGED <<time, again, clock, ctx_running>>
  /\ UNCHANGED side_vars
  /\ UNCHANGED <<round_dead, released, at_call, did, to_run_at_call, unhandled, task_log, et_nonempty, et_sweeps, issuers, round_to_run,
                 round_ran, round_clock, solved, diag, n_deadlock, n_end>>

\* ------------------------------------------------------------- the simcall loop
\* for (auto const& actor : actors_that_ran_)
\*   if (actor->simcall_.call_ != simix::Simcall::NONE) actor->simcall_handle(0);
\* A loop that walks actors_that_ran_ from its end.
IssuerFromBack == actors_that_ran_[Len(actors_that_ran_) + 1 - h_i]

Issuer == actors_that_ran_[h_i]

InSimcallLoop == pc = "handle" /\ h_i <= Len(actors_that_ran_)

\* What every iteration of the loop leaves alone.
LoopFrame ==
  /\ h_i' = h_i + 1
  /\ UNCHANGED <<pc, time, again, clock, ctx_running>>
  /\ UNCHANGED side_vars
  /\ UNCHANGED <<actors_that_ran_, actors_to_destroy_, nsimcalls>>
  /\ UNCHANGED <<tasksTemp, task_i, et_site, et_result, done_set>>
  /\ UNCHANGED <<round_dead, released, at_call, did, to_run_at_call, exec_order, task_log, et_nonempty, et_sweeps, issuers, round_to_run, round_ran,
                 round_clock, solved, diag, n_deadlock, n_end>>

\* The iteration calls simcall_handle on the issuer.
Dispatch ==
  /\ handled' = Append(handled, Issuer)
  /\ unhandled' = unhandled \ {Issuer}

\* The iteration handles the simcall k of a live issuer.
Handling(k) == InSimcallLoop /\ simcall[Issuer] = k /\ ~wannadie[Issuer] /\ LoopFrame /\ Dispatch

\* The issuer has no pending simcall: the iteration skips it.
HandleNone ==
  /\ InSimcallLoop /\ simcall[Issuer] = "NONE"
  /\ LoopFrame
  /\ UNCHANGED <<handled, unhandled>>
  /\ UNCHANGED <<actor_list_, daemons_, actors_to_run_, simcall, waiting_synchro_, wannadie, next_pid>>
  /\ UNCHANGED <<tasks, next_task>>
  /\ UNCHANGED <<timers, next_timer, started, failed_set>>

\* The issuer was marked to die since it issued its simcall: simcall_handle
\* returns at once.
HandleDying ==
  /\ InSimcallLoop /\ simcall[Issuer] # "NONE" /\ wannadie[Issuer]
  /\ LoopFrame /\ Dispatch
  /\ UNCHANGED <<actor_list_, daemons_, actors_to_run_, simcall, waiting_synchro_, wannadie, next_pid>>
  /\ UNCHANGED <<tasks, next_task>>
  /\ UNCHANGED <<timers, next_timer, started, failed_set>>

\* A simcall answered at once: the issuer is runnable again.
HandleYield ==
  /\ Handling("YIELD")
  /\ simcall' = Answered(simcall, {Issuer})
  /\ actors_to_run_' = AnswerAll(actors_to_run_, <<Issuer>>)
  /\ UNCHANGED <<actor_list_, daemons_, waiting_synchro_, wannadie, next_pid>>
  /\ UNCHANGED <<tasks, next_task>>
  /\ UNCHANGED <<timers, next_timer, started, failed_set>>

\* A blocking activity (execute, read, write, put, get, sleep): an action of d
\* time units is started in a model and the issuer waits for it.
HandleExec ==
  /\ Handling("EXEC")
  /\ \E m \in Models, d \in 1..MaxDur :
       started' = started \cup {[id |-> Issuer, model |-> m, finish |-> clock + d, activity |-> Issuer]}
  /\ waiting_synchro_' = [waiting_synchro_ EXCEPT ![Issuer] = Issuer]
  /\ UNCHANGED <<actor_list_, daemons_, actors_to_run_, simcall, wannadie, next_pid>>
  /\ UNCHANGED <<tasks, next_task>>
  /\ UNCHANGED <<timers, next_timer, failed_set>>

\* Mutex lock, semaphore acquire, condition wait on a taken primitive: the
\* issuer waits for a Raw synchro without timeout, whose sleep action has no date.
HandleLock ==
  /\ Handling("LOCK")
  /\ started' = started \cup {[id |-> Issuer, model |-> 1, finish |-> -1, activity |-> Issuer]}
  /\ waiting_synchro_' = [waiting_synchro_ EXCEPT ![Issuer] = Issuer]
  /\ UNCHANGED <<actor_list_, daemons_, actors_to_run_, simcall, wannadie, next_pid>>
  /\ UNCHANGED <<tasks, next_task>>
  /\ UNCHANGED <<timers, next_timer, failed_set>>

\* Mutex unlock, semaphore release, notify: one actor b waiting on the primitive
\* (b = 0: nobody waits on it) is answered, then the issuer is.
HandleUnlock ==
  /\ Handling("UNLOCK")
  /\ \E b \in {0} \cup {w \in actor_list_ : Blocked(w, "LOCK") /\ waiting_synchro_[w] # 0} :
       LET woken == IF b = 0 THEN <<>> ELSE <<b>> IN
       /\ started' = {x \in started : x.activity \notin Range(woken)}
       /\ waiting_synchro_' = [a \in Pids |-> IF a \in Range(woken) THEN 0 ELSE waiting_synchro_[a]]
       /\ simcall' = Answered(simcall, Range(woken) \cup {Issuer})
       /\ actors_to_run_' = AnswerAll(actors_to_run_, woken \o <<Issuer>>)
  /\ UNCHANGED <<actor_list_, daemons_, wannadie, next_pid>>
  /\ UNCHANGED <<tasks, next_task>>
  /\ UNCHANGED <<timers, next_timer, failed_set>>

\* A timed wait served by a kernel timer: the timer's callback answers the issuer.
HandleSleep ==
  /\ Handling("SLEEP")
  /\ \E d \in 1..MaxDur :
       timers' = timers \cup {[date |-> clock + d, seq |-> next_timer, actor |-> Issuer]}
  /\ next_timer' = next_timer + 1
  /\ UNCHANGED <<actor_list_, daemons_, actors_to_run_, simcall, waiting_synchro_, wannadie, next_pid>>
  /\ UNCHANGED <<tasks, next_task>>
  /\ UNCHANGED <<started, failed_set>>

\* A simcall whose result comes through a future: its continuation is a deferred
\* task (a chain of hops + 1 of them) that answers the issuer.
HandleAsync ==
  /\ Handling("ASYNC")
  /\ IF next_task <= MaxTasks
     THEN /\ \E h \in 0..1 :
               tasks' = Append(tasks, [id |-> next_task, actor |-> Issuer, hops |-> h])
          /\ next_task' = next_task + 1
          /\ UNCHANGED <<simcall, actors_to_run_>>
     ELSE /\ simcall' = Answered(simcall, {Issuer})
          /\ actors_to_run_' = AnswerAll(actors_to_run_, <<Issuer>>)
          /\ UNCHANGED <<tasks, next_task>>
  /\ UNCHANGED <<actor_list_, daemons_, waiting_synchro_, wannadie, next_pid>>
  /\ UNCHANGED <<timers, next_timer, started, failed_set>>

\* Actor creation: maestro creates the actor (a daemon or not) and pushes it to
\* the run queue, then answers the issuer.
HandleCreate ==
  /\ Handling("CREATE")
  /\ IF next_pid <= MaxActors
     THEN /\ actor_list_' = actor_list_ \cup {next_pid}
          /\ \E dmn \in BOOLEAN : daemons_' = IF dmn THEN daemons_ \cup {next_pid} ELSE daemons_
          /\ next_pid' = next_pid + 1
          /\ actors_to_run_' = AnswerAll(actors_to_run_, <<next_pid, Issuer>>)
     ELSE /\ actors_to_run_' = AnswerAll(actors_to_run_, <<Issuer>>)
          /\ UNCHANGED <<actor_list_, daemons_, next_pid>>
  /\ simcall' = Answered(simcall, {Issuer})
  /\ UNCHANGED <<waiting_synchro_, wannadie>>
  /\ UNCHANGED <<tasks, next_task>>
  /\ UNCHANGED <<timers, next_timer, started, failed_set>>

\* Actor::kill: maestro kills another live actor v (v = 0: the victim is dead
\* already, nothing to do), then answers the issuer.
HandleKill ==
  /\ Handling("KILL")
  /\ \E v \in IF actor_list_ \ {Issuer} = {} THEN {0} ELSE actor_list_ \ {Issuer} :
       /\ Kill(IF v = 0 THEN <<>> ELSE <<v>>, <<Issuer>>)
       /\ simcall' = Answered(simcall, {Issuer})
  /\ UNCHANGED <<actor_list_, daemons_, next_pid>>
  /\ UNCHANGED <<tasks, next_task>>
  /\ UNCHANGED <<timers, next_timer>>

\* The loop is over: execute_tasks(), line 370.
SimcallLoopEnd ==
  /\ pc = "handle" /\ h_i > Len(actors_that_ran_)
  /\ ExecuteTasksEnter("l370")
  /\ handled' = <<>> /\ to_run_at_call' = <<>> /\ at_call' = NoCall /\ did' = NoStep
  /\ UNCHANGED kernel_vars
  /\ UNCHANGED next_task
  /\ UNCHANGED model_vars
  /\ UNCHANGED <<time, again, clock, ctx_running, h_i>>
  /\ UNCHANGED side_vars
  /\ UNCHANGED <<round_dead, released, exec_order, unhandled, task_log,
                 issuers, round_to_run, round_ran, round_clock, solved, diag, n_deadlock, n_end>>

\* ------------------------------------------------------------- wake_all_waiting_actors
\* An extraction that serves the done actions of a model before its failed ones.
WakeOrderDoneFirst == Concat([m \in Models |-> done_set[m] \o failed_set[m]], NModels)

\* The actions in the order wake_all_waiting_actors extracts them: model after
\* model, the failed ones of a model before its done ones.
WakeOrder == Concat([m \in Models |-> failed_set[m] \o done_set[m]], NModels)

\* The actors answered by the post() of those that still have an activity.
WakeOwners ==
  LET posts == SelectSeq(WakeOrder, LAMBDA x : x.activity # 0)
  IN  [i \in 1..Len(posts) |-> posts[i].activity]

\* A wake-up that serves the done action sets and forgets the failed ones.
WakeDoneOnly ==
  LET owners == Concat([m \in Models |->
                         [i \in 1..Len(SelectSeq(done_set[m], LAMBDA x : x.activity # 0)) |->
                            SelectSeq(done_set[m], LAMBDA x : x.activity # 0)[i].activity]],
                       NModels)
  IN  /\ done_set' = EmptySets
      /\ failed_set' = failed_set
      /\ simcall' = Answered(simcall, Range(owners))
      /\ waiting_synchro_' = [a \in Pids |-> IF a \in Range(owners) THEN 0 ELSE waiting_synchro_[a]]
      /\ actors_to_run_' = AnswerAll(actors_to_run_, owners)

wake_all_waiting_actors ==
  /\ done_set' = EmptySets
  /\ failed_set' = EmptySets
  /\ simcall' = Answered(simcall, Range(WakeOwners))
  /\ waiting_synchro_' = [a \in Pids |-> IF a \in Range(WakeOwners) THEN 0 ELSE waiting_synchro_[a]]
  /\ actors_to_run_' = AnswerAll(actors_to_run_, WakeOwners)

\* do { wake_all_waiting_actors(); } while (execute_tasks());   entered after
\* the execute_tasks() of line 370, repeated while the one of line 373 ran tasks.
WakeLoop ==
  /\ pc = "et_done"
  /\ et_site = "l370" \/ (et_site = "l373" /\ et_result)
  /\ wake_all_waiting_actors
  /\ ExecuteTasksEnter("l373")
  /\ UNCHANGED <<actor_list_, daemons_, actors_that_ran_, actors_to_destroy_, wannadie,
                 nsimcalls, next_pid>>
  /\ UNCHANGED next_task
  /\ UNCHANGED <<timers, next_timer, started>>
  /\ UNCHANGED <<time, again, clock, ctx_running, h_i>>
  /\ UNCHANGED side_vars
  /\ UNCHANGED <<round_dead, released, at_call, did, to_run_at_call, exec_order, handled, unhandled, task_log,
                 issuers, round_to_run, round_ran, round_clock, solved, diag, n_deadlock, n_end>>

\* if (actor_list_.size() == daemons_.size()) kill every daemon;   then back to
\* the test of the sub-round loop. daemons_ is walked in the order of the set.
\* A test that holds as soon as there is a daemon.
SomeDaemon == daemons_ # {}

OnlyDaemonsRemain == Cardinality(actor_list_) = Cardinality(daemons_)

DaemonKill ==
  /\ pc = "et_done" /\ et_site = "l373" /\ ~et_result
  /\ \E order \in Perms(IF OnlyDaemonsRemain THEN daemons_ ELSE {}) : Kill(order, <<>>)
  /\ pc' = "l296"
  /\ UNCHANGED <<actor_list_, daemons_, actors_that_ran_, actors_to_destroy_, simcall,
                 nsimcalls, next_pid>>
  /\ UNCHANGED task_vars
  /\ UNCHANGED <<timers, next_timer, done_set>>
  /\ UNCHANGED <<time, again, clock, ctx_running, h_i>>
  /\ UNCHANGED side_vars
  /\ UNCHANGED hist_vars

\* ------------------------------------------------------------- the resource sub-round
\* surf_solve(max_date): the date of the next event is the earliest of max_date
\* (when there is a timer) and of the models' next events; with no event at all
\* it returns -1 and touches nothing, else it moves the clock there, updates the
\* actions of every model and returns the time elapsed. An action that reaches
\* its date finishes, or fails when its resource fails at that date.
SolveEvents(max_date) ==
  {x.finish : x \in {y \in started : y.finish >= 0}}
    \cup (IF max_date # -1 THEN {max_date} ELSE {})

surf_solve(max_date) ==
  IF SolveEvents(max_date) = {}
  THEN /\ time' = -1
       /\ UNCHANGED <<clock, started, done_set, failed_set>>
  ELSE LET now == Min(SolveEvents(max_date))
           over == {x \in started : x.finish >= 0 /\ x.finish <= now}
       IN  /\ clock' = now
           /\ time' = now - clock
           /\ started' = started \ over
           /\ \E bad \in SUBSET over :
                /\ Cardinality(bad) <= 1
                /\ failed_set' = [m \in Models |->
                                   failed_set[m] \o ById({x \in bad : x.model = m})]
                /\ done_set' = [m \in Models |->
                                 done_set[m] \o ById({x \in over \ bad : x.model = m})]

\* A test that looks at the next timer alone.
SolveNeededTimerOnly(next) == next > -1

\* time = timer::Timer::next(); if (time > -1.0 || not actor_list_.empty())
\*   time = surf_solve(time);
SolveNeeded(next) == next > -1 \/ actor_list_ # {}

TimerNextSolve ==
  /\ pc = "l383"
  /\ IF SolveNeeded(TimerNext)
     THEN surf_solve(TimerNext) /\ solved' = TRUE
     ELSE time' = TimerNext /\ UNCHANGED <<clock, started, done_set, failed_set, solved>>
  /\ again' = FALSE
  /\ pc' = "l397"
  /\ UNCHANGED kernel_vars
  /\ UNCHANGED task_vars
  /\ UNCHANGED <<timers, next_timer>>
  /\ UNCHANGED <<ctx_running, h_i>>
  /\ UNCHANGED side_vars
  /\ UNCHANGED <<round_dead, released, at_call, did, to_run_at_call, exec_order, handled, unhandled, task_log, et_nonempty, et_sweeps,
                 issuers, round_to_run, round_ran, round_clock, diag, n_deadlock, n_end>>

\* timer::Timer::execute_all(): the timers whose date is reached run in heap
\* order; it returns whether one ran.
TimersDue == {t \in timers : t.date <= clock}

TimerOwners ==
  LET due == SelectSeq(ByDate(TimersDue), LAMBDA t : Blocked(t.actor, "SLEEP"))
  IN  [i \in 1..Len(due) |-> due[i].actor]

\* again = timer::Timer::execute_all(); if (execute_tasks()) ...   (the call)
PostTimers ==
  /\ pc = "l397"
  /\ again' = (TimersDue # {})
  /\ timers' = timers \ TimersDue
  /\ simcall' = Answered(simcall, Range(TimerOwners))
  /\ actors_to_run_' = AnswerAll(actors_to_run_, TimerOwners)
  /\ ExecuteTasksEnter("l398")
  /\ UNCHANGED <<actor_list_, daemons_, actors_that_ran_, actors_to_destroy_,
                 waiting_synchro_, wannadie, nsimcalls, next_pid>>
  /\ UNCHANGED next_task
  /\ UNCHANGED <<next_timer, started, done_set, failed_set>>
  /\ UNCHANGED <<time, clock, ctx_running, h_i>>
  /\ UNCHANGED side_vars
  /\ UNCHANGED <<round_dead, released, at_call, did, to_run_at_call, exec_order, handled, unhandled, task_log,
                 issuers, round_to_run, round_ran, round_clock, solved, diag, n_deadlock, n_end>>

\* if (execute_tasks()) again = true; wake_all_waiting_actors(); } while (again);
PostTasks ==
  /\ pc = "et_done" /\ et_site = "l398"
  /\ again' = (again \/ et_result)
  /\ wake_all_waiting_actors
  /\ pc' = IF again' THEN "l397" ELSE "l404"
  /\ UNCHANGED <<actor_list_, daemons_, actors_that_ran_, actors_to_destroy_, wannadie,
                 nsimcalls, next_pid>>
  /\ UNCHANGED task_vars
  /\ UNCHANGED <<timers, next_timer, started>>
  /\ UNCHANGED <<time, clock, ctx_running, h_i>>
  /\ UNCHANGED side_vars
  /\ UNCHANGED hist_vars

\* ------------------------------------------------------------- end of the round
\* An empty_trash that takes the actors from the back of the list.
ReleaseOrderFromBack(trash) == [i \in 1..Len(trash) |-> trash[Len(trash) + 1 - i]]

\* while (not actors_to_destroy_.empty()) { front, pop_front, intrusive_ptr_release }:
\* the actors released, in order.
RECURSIVE ReleaseOrder(_)
ReleaseOrder(trash) ==
  IF trash = <<>> THEN <<>> ELSE <<Head(trash)>> \o ReleaseOrder(Tail(trash))

\* EngineImpl::empty_trash
empty_trash ==
  /\ released' = ReleaseOrder(actors_to_destroy_)
  /\ actors_to_destroy_' = <<>>

\* EngineImpl::get_actor_by_pid: the actor of that pid, live or in the trash;
\* 0 is nullptr.
get_actor_by_pid(pid) ==
  IF pid \in actor_list_ THEN pid
  ELSE IF \E i \in 1..Len(actors_to_destroy_) : actors_to_destroy_[i] = pid THEN pid
       ELSE 0

\* A test that does not look at actor_list_.
DeadlockConditionAnyRound == time < 0 /\ actors_to_run_ = <<>>

\* if (time < 0. && actors_to_run_.empty() && not actor_list_.empty())
DeadlockCondition == time < 0 /\ actors_to_run_ = <<>> /\ actor_list_ # {}

\* empty_trash(); then the deadlock test.
EmptyTrash ==
  /\ pc = "l404"
  /\ empty_trash
  /\ pc' = IF DeadlockCondition THEN "l415" ELSE "l422"
  /\ UNCHANGED <<actor_list_, daemons_, actors_to_run_, actors_that_ran_, simcall,
                 waiting_synchro_, wannadie, nsimcalls, next_pid>>
  /\ UNCHANGED task_vars
  /\ UNCHANGED model_vars
  /\ UNCHANGED <<time, again, clock, ctx_running, h_i>>
  /\ UNCHANGED side_vars
  /\ UNCHANGED <<round_dead, at_call, did, to_run_at_call, exec_order, issuers, handled, unhandled,
                 task_log, et_nonempty, et_sweeps, round_to_run, round_ran, round_clock, solved,
                 diag, n_deadlock, n_end>>

\* EngineImpl::display_all_actor_status: one line per actor of actor_list_, in
\* pid order: the activity it waits for if any, else its simcall.
display_all_actor_status ==
  LET live == ByPid(actor_list_)
  IN  [i \in 1..Len(live) |->
         IF waiting_synchro_[live[i]] # 0
         THEN [pid |-> live[i], activity |-> waiting_synchro_[live[i]], call |-> "NONE"]
         ELSE [pid |-> live[i], activity |-> 0, call |-> simcall[live[i]]]]

\* display_all_actor_status(); simgrid::s4u::Engine::on_deadlock();
DeadlockReport ==
  /\ pc = "l415"
  /\ diag' = display_all_actor_status
  /\ n_deadlock' = n_deadlock + 1
  /\ pc' = "l417"
  /\ UNCHANGED kernel_vars
  /\ UNCHANGED task_vars
  /\ UNCHANGED model_vars
  /\ UNCHANGED <<time, again, clock, ctx_running, h_i>>
  /\ UNCHANGED side_vars
  /\ UNCHANGED <<round_dead, released, at_call, did, to_run_at_call, exec_order, handled, unhandled, task_log, et_nonempty, et_sweeps,
                 issuers, round_to_run, round_ran, round_clock, solved, n_end>>

\* A deadlock branch that kills nobody.
DeadlockVictimsNone == <<>>

\* for (auto const& kv : actor_list_) simix_global->get_maestro()->kill(kv.second);
DeadlockVictims == ByPid(actor_list_)

DeadlockKill ==
  /\ pc = "l417"
  /\ Kill(DeadlockVictims, <<>>)
  /\ pc' = "l422"
  /\ UNCHANGED <<actor_list_, daemons_, actors_that_ran_, actors_to_destroy_, simcall,
                 nsimcalls, next_pid>>
  /\ UNCHANGED task_vars
  /\ UNCHANGED <<timers, next_timer, done_set>>
  /\ UNCHANGED <<time, again, clock, ctx_running, h_i>>
  /\ UNCHANGED side_vars
  /\ UNCHANGED hist_vars

\* A loop that goes on only while an actor is runnable.
LoopAgainNoTime == has_actors_to_run

\* } while (time > -1.0 || has_actors_to_run());
LoopAgain == time > -1 \/ has_actors_to_run

LoopTest ==
  /\ pc = "l422"
  /\ pc' = IF LoopAgain THEN "round" ELSE "l424"
  /\ UNCHANGED kernel_vars
  /\ UNCHANGED task_vars
  /\ UNCHANGED model_vars
  /\ UNCHANGED <<time, again, clock, ctx_running, h_i>>
  /\ UNCHANGED side_vars
  /\ UNCHANGED hist_vars

\* The top of the do-loop: execute_tasks(), line 294 (the breakpoint is off).
RoundBegin ==
  /\ pc = "round"
  /\ ExecuteTasksEnter("l294")
  /\ round_to_run' = actors_to_run_
  /\ round_ran' = {}
  /\ round_clock' = clock
  /\ solved' = FALSE
  /\ diag' = <<>>
  /\ round_dead' = <<>> /\ released' = <<>>
  /\ UNCHANGED kernel_vars
  /\ UNCHANGED next_task
  /\ UNCHANGED model_vars
  /\ UNCHANGED <<time, again, clock, ctx_running, h_i>>
  /\ UNCHANGED side_vars
  /\ UNCHANGED <<at_call, did, to_run_at_call, exec_order, issuers, handled, unhandled, task_log, n_deadlock,
                 n_end>>

\* if (not actor_list_.empty()) THROW_IMPOSSIBLE;
\* simgrid::s4u::Engine::on_simulation_end();
RunExit ==
  /\ pc = "l424"
  /\ IF actor_list_ # {}
     THEN pc' = "thrown" /\ UNCHANGED n_end
     ELSE pc' = "done" /\ n_end' = n_end + 1
  /\ UNCHANGED kernel_vars
  /\ UNCHANGED task_vars
  /\ UNCHANGED model_vars
  /\ UNCHANGED <<time, again, clock, ctx_running, h_i>>
  /\ UNCHANGED side_vars
  /\ UNCHANGED <<round_dead, released, at_call, did, to_run_at_call, exec_order, handled, unhandled, task_log, et_nonempty, et_sweeps,
                 issuers, round_to_run, round_ran, round_clock, solved, diag, n_deadlock>>

\* ------------------------------------------------------------- specification
Next ==
  \/ RoundBegin
  \/ RunTask
  \/ EndSweep
  \/ SubRoundTest
  \/ \E a \in Pids : UserIssue(a)
  \/ \E a \in Pids : UserExit(a)
  \/ RunAllActorsReturn
  \/ HandleNone
  \/ HandleDying
  \/ HandleYield
  \/ HandleExec
  \/ HandleLock
  \/ HandleUnlock
  \/ HandleSleep
  \/ HandleAsync
  \/ HandleCreate
  \/ HandleKill
  \/ SimcallLoopEnd
  \/ WakeLoop
  \/ DaemonKill
  \/ TimerNextSolve
  \/ PostTimers
  \/ PostTasks
  \/ EmptyTrash
  \/ DeadlockReport
  \/ DeadlockKill
  \/ LoopTest
  \/ RunExit

Spec == Init /\ [][Next]_vars

\* ------------------------------------------------------------- RawImpl
\* One Raw synchronization, from its construction (host and timeout set) to the
\* answer of the simcall that waits on it. The solver's part is the fate of the
\* sleep action: it elapses (FINISHED) or its host fails (FAILED).
Hosts == 1..NHosts

\* -1 is "no timeout": a sleep that never elapses.
Timeouts == {-1} \cup (1..MaxDur)

\* A Raw synchronization as the simcall handler has built it for the issuer, one
\* of the actors `who`: host and timeout set, not started.
RawDrawn(hosts, timeouts, who) ==
  /\ \E h \in hosts, t \in timeouts, p \in who :
       /\ host_ = h /\ timeout_ = t
       /\ issuer_ = [NoIssuer EXCEPT !.pid = p, !.call_ = "LOCK"]
  /\ state_ = "WAITING" /\ surf_action_ = NoAction /\ simcalls_ = <<>>
  /\ raw_run_list = <<>> /\ n_finish_callback = 0 /\ n_post = 0 /\ calls = <<>>

RawInit == EngineInit /\ RawDrawn(Hosts, Timeouts, Pids) /\ CpuIdle /\ DiskIdle /\ LaterIdle

\* Cpu::sleep(duration): a new sleep action on the cpu of the host, bound to no
\* activity yet.
sleep(host, duration) ==
  [state |-> "STARTED", duration |-> duration, host |-> host, activity |-> "nullptr",
   sharing_penalty |-> 1]

\* Action::set_activity
set_activity(action, activity) == [action EXCEPT !.activity = activity]

\* A start that forgets to bind the action to the activity.
StartUnbound == surf_action_' = sleep(host_, timeout_)

\* RawImpl::start
\*   surf_action_ = host_->get_cpu()->sleep(timeout_); surf_action_->set_activity(this);
start == surf_action_' = set_activity(sleep(host_, timeout_), "this")

\* A registration that makes the issuer wait without queueing its simcall.
WaitWithoutSimcall ==
  /\ simcalls_' = simcalls_
  /\ issuer_' = [issuer_ EXCEPT !.waiting_synchro_ = "this"]

\* ActivityImpl::register_simcall: the simcall joins simcalls_ and its issuer
\* waits on the activity.
register_simcall ==
  /\ simcalls_' = Append(simcalls_, issuer_.pid)
  /\ issuer_' = [issuer_ EXCEPT !.waiting_synchro_ = "this"]

\* The handler of a blocking synchronization simcall starts the synchro and
\* registers the simcall on it.
RawStart ==
  /\ surf_action_ = NoAction /\ n_post = 0 /\ simcalls_ = <<>>
  /\ start
  /\ register_simcall
  /\ calls' = Append(calls, "start")
  /\ UNCHANGED <<host_, timeout_, state_, raw_run_list, n_finish_callback, n_post>>
  /\ UNCHANGED outside_raw

\* A suspend that suspends the sleep action of the synchro.
SuspendSleep ==
  /\ surf_action_' = IF surf_action_ = NoAction THEN surf_action_
                     ELSE [surf_action_ EXCEPT !.sharing_penalty = 0]
  /\ UNCHANGED <<state_, simcalls_, issuer_, raw_run_list, n_finish_callback>>

\* The sleep has lasted its duration: the action is FINISHED.
SleepElapses ==
  /\ surf_action_.state = "STARTED" /\ surf_action_.duration >= 0
  /\ surf_action_' = [surf_action_ EXCEPT !.state = "FINISHED"]
  /\ UNCHANGED <<host_, timeout_, state_, simcalls_, issuer_, raw_run_list, n_finish_callback,
                 n_post, calls>>
  /\ UNCHANGED outside_raw

\* The host of the sleep is turned off: the action is FAILED.
HostFails ==
  /\ surf_action_.state = "STARTED"
  /\ surf_action_' = [surf_action_ EXCEPT !.state = "FAILED"]
  /\ UNCHANGED <<host_, timeout_, state_, simcalls_, issuer_, raw_run_list, n_finish_callback,
                 n_post, calls>>
  /\ UNCHANGED outside_raw


\* RawImpl::post, lines 59-63: the state the activity takes from its action.
PostState(action_state, st) ==
  IF action_state = "FAILED" THEN "FAILED"
  ELSE IF action_state = "FINISHED" THEN "SRC_TIMEOUT"
  ELSE st

\* ActivityImpl::clean_action: the action is released and surf_action_ reset.
clean_action == surf_action_' = NoAction

\* A finish that answers the simcall without reporting the failure.
FinishIssuerNoError(st, who) ==
  [who EXCEPT !.waiting_synchro_ = "nullptr", !.call_ = "NONE"]

\* RawImpl::finish, for an activity in state st: the one waiting simcall is
\* taken from simcalls_; on FAILED its issuer is marked to die and given a
\* HostFailureException; then finish_callback_ runs, the issuer waits on
\* nothing any more and its simcall is answered (the actor joins the run list).
FinishIssuer(st, who) ==
  [who EXCEPT !.wannadie = IF st = "FAILED" THEN TRUE ELSE @,
              !.exception_ = IF st = "FAILED" THEN "HostFailureException" ELSE @,
              !.waiting_synchro_ = "nullptr",
              !.call_ = "NONE"]

finish(st) ==
  /\ Len(simcalls_) = 1
  /\ st \in {"FAILED", "SRC_TIMEOUT"}
  /\ simcalls_' = Tail(simcalls_)
  /\ issuer_' = FinishIssuer(st, issuer_)
  /\ n_finish_callback' = n_finish_callback + 1
  /\ raw_run_list' = add_actor_to_run_list_no_check(raw_run_list, Head(simcalls_))

\* RawImpl::post
post ==
  /\ state_' = PostState(surf_action_.state, state_)
  /\ clean_action
  /\ finish(PostState(surf_action_.state, state_))

\* wake_all_waiting_actors extracts the action from the failed or done set of
\* its model and, as the action has an activity, calls post() on it.
RawPost ==
  /\ surf_action_.state \in {"FAILED", "FINISHED"}
  /\ surf_action_.activity # "nullptr"
  /\ post
  /\ n_post' = n_post + 1
  /\ calls' = Append(calls, "post")
  /\ UNCHANGED <<host_, timeout_>>
  /\ UNCHANGED outside_raw

\* A resume that puts the activity back to RUNNING.
ResumeRuns ==
  /\ state_' = "RUNNING"
  /\ UNCHANGED <<surf_action_, simcalls_, issuer_, raw_run_list, n_finish_callback>>

\* A cancel that cancels: the activity goes to CANCELED, its action is released
\* and the waiting actor is answered with an error.
CancelForces ==
  /\ state_' = "CANCELED"
  /\ surf_action_' = NoAction
  /\ simcalls_' = <<>>
  /\ issuer_' = IF simcalls_ = <<>> THEN issuer_
                ELSE [issuer_ EXCEPT !.exception_ = "CancelException",
                                     !.waiting_synchro_ = "nullptr", !.call_ = "NONE"]
  /\ raw_run_list' = IF simcalls_ = <<>> THEN raw_run_list
                     ELSE add_actor_to_run_list_no_check(raw_run_list, Head(simcalls_))
  /\ UNCHANGED n_finish_callback

\* RawImpl::suspend, RawImpl::resume, RawImpl::cancel: empty bodies.
suspend == UNCHANGED <<state_, surf_action_, simcalls_, issuer_, raw_run_list, n_finish_callback>>

resume == UNCHANGED <<state_, surf_action_, simcalls_, issuer_, raw_run_list, n_finish_callback>>

cancel == UNCHANGED <<state_, surf_action_, simcalls_, issuer_, raw_run_list, n_finish_callback>>

\* What a call of one of the three leaves alone besides.
CallFrame(name) ==
  /\ Len(SelectSeq(calls, LAMBDA c : c \in {"suspend", "resume", "cancel"})) < MaxCalls
  /\ calls' = Append(calls, name)
  /\ UNCHANGED <<host_, timeout_, n_post>>
  /\ UNCHANGED outside_raw

RawSuspend == CallFrame("suspend") /\ suspend

RawResume == CallFrame("resume") /\ resume

RawCancel == CallFrame("cancel") /\ cancel

RawNext ==
  \/ RawStart
  \/ SleepElapses
  \/ HostFails
  \/ RawPost
  \/ RawSuspend
  \/ RawResume
  \/ RawCancel

RawSpec == RawInit /\ [][RawNext]_vars

\* ------------------------------------------------------------- CpuAction
\* The speed of the cpu, in units of work per second: the capacity of its
\* constraint. Every penalty up to MaxPenalty + 1 divides it.
Speed == 6

\* A started action of cost w seconds of the whole cpu and sharing penalty p,
\* next to a Raw synchronization of the first actor on the first host, without
\* timeout or with the longest one, that is not started yet.
CpuInit ==
  /\ EngineInit
  /\ RawDrawn({1}, {-1, MaxDur}, {1})
  /\ \E w \in 1..MaxWork, p \in 1..MaxPenalty :
       cpu_action = [state |-> "STARTED", cost |-> w * Speed, remains |-> w * Speed,
                     sharing_penalty_ |-> p, penalty |-> p, suspended_ |-> "RUNNING"]
  /\ cpu_now = 0 /\ cpu_signals = <<>> /\ cpu_snap = NoSnap
  /\ DiskIdle /\ LaterIdle

\* The rate the solver gives to the variable of an action that is alone on the
\* cpu: none when its penalty is 0, else the capacity divided by the penalty.
Share(a) == IF a.penalty = 0 THEN 0 ELSE Speed \div a.penalty

\* The date at which a started action finishes if nothing changes; -1: never.
FinishTime(a, now) ==
  IF a.state # "STARTED" \/ Share(a) = 0 THEN -1
  ELSE now + (a.remains + Share(a) - 1) \div Share(a)

\* Action::suspend: the variable of the action gets penalty 0.
Action_suspend(a) == [a EXCEPT !.penalty = 0, !.suspended_ = "SUSPENDED"]

\* Action::resume: the variable gets the sharing penalty of the action back.
Action_resume(a) == [a EXCEPT !.penalty = a.sharing_penalty_, !.suspended_ = "RUNNING"]

\* on_state_change(*this, previous): the listeners get the action, in its
\* current state, and the previous state.
on_state_change(a, previous) ==
  cpu_signals' = Append(cpu_signals, [previous |-> previous, state |-> a.state])

\* CpuAction::suspend
CpuAction_suspend ==
  /\ on_state_change(cpu_action, cpu_action.state)
  /\ cpu_action' = Action_suspend(cpu_action)

\* CpuAction::resume
CpuAction_resume ==
  /\ on_state_change(cpu_action, cpu_action.state)
  /\ cpu_action' = Action_resume(cpu_action)

\* suspend() is called on the action. cpu_snap remembers the action as it was
\* before, unless it was suspended already.
CpuSuspend ==
  /\ Len(cpu_signals) < MaxCalls
  /\ CpuAction_suspend
  /\ cpu_snap' = IF cpu_action.suspended_ = "RUNNING"
                 THEN [phase |-> "suspended", remains |-> cpu_action.remains,
                       state |-> cpu_action.state, finish |-> FinishTime(cpu_action, cpu_now),
                       penalty |-> cpu_action.penalty, now |-> cpu_now]
                 ELSE cpu_snap
  /\ UNCHANGED cpu_now
  /\ UNCHANGED <<outside_cpu, raw_vars>>

\* resume() is called on the action.
CpuResume ==
  /\ Len(cpu_signals) < MaxCalls
  /\ CpuAction_resume
  /\ cpu_snap' = IF cpu_snap.phase = "suspended" THEN [cpu_snap EXCEPT !.phase = "resumed"]
                 ELSE cpu_snap
  /\ UNCHANGED cpu_now
  /\ UNCHANGED <<outside_cpu, raw_vars>>

\* One second passes: the action gets its share of the cpu for that long, and
\* is FINISHED when no work remains.
CpuAdvance ==
  /\ cpu_now < MaxNow
  /\ cpu_action.state = "STARTED"
  /\ cpu_now' = cpu_now + 1
  /\ cpu_action' =
       IF cpu_action.remains <= Share(cpu_action) /\ Share(cpu_action) > 0
       THEN [cpu_action EXCEPT !.remains = 0, !.state = "FINISHED"]
       ELSE [cpu_action EXCEPT !.remains = @ - Share(cpu_action)]
  /\ UNCHANGED <<cpu_signals, cpu_snap>>
  /\ UNCHANGED <<outside_cpu, raw_vars>>

CpuNext ==
  \/ CpuSuspend
  \/ CpuResume
  \/ CpuAdvance
  \/ RawStart
  \/ RawSuspend
  \/ RawResume

CpuSpec == CpuInit /\ [][CpuNext]_vars

\* ------------------------------------------------------------- DiskImpl
Bandwidths == 1..MaxBw

\* DiskImpl::DiskImpl: peaks as given, scales 1, no constraint, not sealed; a
\* Resource is on when constructed.
DiskImpl(read_bandwidth, write_bandwidth) ==
  [read_bw_ |-> [peak |-> read_bandwidth, scale |-> 1],
   write_bw_ |-> [peak |-> write_bandwidth, scale |-> 1],
   constraint_read_ |-> 0, constraint_write_ |-> 0, constraint_ |-> 0,
   sealed_ |-> FALSE, is_on_ |-> TRUE]

\* DiskS19Model::create_disk: a new disk of the model, whose system has no
\* constraint yet.
DiskInit ==
  /\ EngineInit /\ RawIdle /\ CpuIdle
  /\ \E r \in Bandwidths, w \in Bandwidths : disk = DiskImpl(r, w)
  /\ maxmin_system = <<>> /\ disk_signals = 0 /\ disk_calls = <<>>
  /\ LaterIdle

Max(a, b) == IF a >= b THEN a ELSE b

\* The orders in which the three constraint_new calls of seal() can be
\* evaluated: each is an argument of a call made on the result of the previous
\* setter, and an argument may be evaluated before or after the object
\* expression of its call.
SealOrders ==
  { <<"read", "write", "aggregate">>, <<"write", "read", "aggregate">>,
    <<"aggregate", "read", "write">>, <<"aggregate", "write", "read">> }

\* The bound seal() gives to each of the three constraints.
SealBound(d, which) ==
  CASE which = "read" -> d.read_bw_.peak * d.read_bw_.scale
    [] which = "write" -> d.write_bw_.peak * d.write_bw_.scale
    [] which = "aggregate" -> Max(d.read_bw_.peak, d.write_bw_.peak)

\* lmm::System::constraint_new for each element of `order`: the system with the
\* new constraints appended.
constraint_new(system, d, order) ==
  system \o [i \in 1..Len(order) |-> [id |-> "disk", bound |-> SealBound(d, order[i])]]

\* The constraint of `system` that the call for `which` has returned.
Created(system, order, which) ==
  Len(system) + (CHOOSE i \in 1..Len(order) : order[i] = which)

\* DiskImpl::turn_on and DiskImpl::turn_off
turn_on(d) == [d EXCEPT !.is_on_ = TRUE]

turn_off(d) == [d EXCEPT !.is_on_ = FALSE]

\* A seal() without the test of is_sealed().
SealAlways(order) ==
  /\ maxmin_system' = constraint_new(maxmin_system, disk, order)
  /\ disk' = [turn_on(disk) EXCEPT !.constraint_read_ = Created(maxmin_system, order, "read"),
                                   !.constraint_write_ = Created(maxmin_system, order, "write"),
                                   !.constraint_ = Created(maxmin_system, order, "aggregate"),
                                   !.sealed_ = TRUE]
  /\ disk_signals' = IF disk.is_on_ THEN disk_signals ELSE disk_signals + 1

\* DiskImpl::seal
seal(order) ==
  IF disk.sealed_
  THEN UNCHANGED <<disk, maxmin_system, disk_signals>>
  ELSE /\ maxmin_system' = constraint_new(maxmin_system, disk, order)
       /\ disk' = [turn_on(disk) EXCEPT
                     !.constraint_read_ = Created(maxmin_system, order, "read"),
                     !.constraint_write_ = Created(maxmin_system, order, "write"),
                     !.constraint_ = Created(maxmin_system, order, "aggregate"),
                     !.sealed_ = TRUE]
       /\ disk_signals' = IF disk.is_on_ THEN disk_signals ELSE disk_signals + 1

\* What a call on the disk leaves alone.
DiskFrame(name) ==
  /\ Len(disk_calls) < MaxCalls + 1
  /\ disk_calls' = Append(disk_calls, name)
  /\ UNCHANGED outside_disk

DiskSeal == \E order \in SealOrders : DiskFrame("seal") /\ seal(order)

DiskTurnOn ==
  /\ DiskFrame("turn_on")
  /\ disk' = turn_on(disk)
  /\ disk_signals' = IF disk.is_on_ THEN disk_signals ELSE disk_signals + 1
  /\ UNCHANGED maxmin_system

DiskTurnOff ==
  /\ DiskFrame("turn_off")
  /\ disk' = turn_off(disk)
  /\ disk_signals' = IF disk.is_on_ THEN disk_signals + 1 ELSE disk_signals
  /\ UNCHANGED maxmin_system

\* DiskS19::set_read_bandwidth, on a sealed disk: the peak is set and the bound
\* of the constraint get_constraint() returns is updated to it. No action uses
\* the disk, so update_penalties finds no variable.
DiskSetReadBandwidth ==
  /\ disk.sealed_
  /\ DiskFrame("set_read_bandwidth")
  /\ \E value \in Bandwidths :
       /\ disk' = [disk EXCEPT !.read_bw_.peak = value]
       /\ maxmin_system' = [maxmin_system EXCEPT
                              ![disk.constraint_].bound = value * disk.read_bw_.scale]
  /\ UNCHANGED disk_signals

\* DiskS19::set_write_bandwidth, on a sealed disk.
DiskSetWriteBandwidth ==
  /\ disk.sealed_
  /\ DiskFrame("set_write_bandwidth")
  /\ \E value \in Bandwidths :
       /\ disk' = [disk EXCEPT !.write_bw_.peak = value]
       /\ maxmin_system' = [maxmin_system EXCEPT
                              ![disk.constraint_].bound = value * disk.write_bw_.scale]
  /\ UNCHANGED disk_signals

DiskNext ==
  \/ DiskSeal
  \/ DiskTurnOn
  \/ DiskTurnOff
  \/ DiskSetReadBandwidth
  \/ DiskSetWriteBandwidth

DiskSpec == DiskInit /\ [][DiskNext]_vars

\* ------------------------------------------------------------- state signals
\* Action::State
ActionStates == {"INITED", "STARTED", "FAILED", "FINISHED", "IGNORED"}

\* A set_state that signals every call.
DiskAction_set_state_always(states, signals, new_state) ==
  [states  |-> Append(states, new_state),
   signals |-> Append(signals, [previous |-> states[Len(states)], new |-> new_state])]

\* DiskAction::set_state(new_state): the state is set and on_state_change
\* emitted only if new_state is not the state of the action.
DiskAction_set_state(states, signals, new_state) ==
  LET previous_state == states[Len(states)]
  IN  IF new_state # previous_state
      THEN [states  |-> Append(states, new_state),
            signals |-> Append(signals, [previous |-> previous_state, new |-> new_state])]
      ELSE [states |-> Append(states, previous_state), signals |-> signals]

\* A disk that is on, as create_disk leaves it, and one of its actions, STARTED
\* or FAILED as its constructor leaves it.
SignalInit ==
  /\ EngineOne /\ RawIdle /\ CpuIdle
  /\ disk = DiskImpl(MaxBw, MaxBw)
  /\ maxmin_system = <<>> /\ disk_signals = 0 /\ disk_calls = <<>>
  /\ IoIdle /\ SolverIdle /\ HostIdle /\ WaitanyIdle /\ ZoneIdle /\ ModelsIdle
  /\ TorusIdle /\ DepIdle /\ ChooseIdle /\ RegistryIdle
  /\ \E s \in {"STARTED", "FAILED"} : disk_action_states = <<s>>
  /\ disk_action_signals = <<>>

\* A call of DiskAction::set_state.
DiskActionSetState ==
  /\ Len(disk_action_states) < MaxCalls + 1
  /\ \E new_state \in ActionStates :
       LET r == DiskAction_set_state(disk_action_states, disk_action_signals, new_state)
       IN  disk_action_states' = r.states /\ disk_action_signals' = r.signals
  /\ UNCHANGED <<before_last, torus_vars, dep_vars, choose_vars, registry_vars>>

SignalNext ==
  \/ DiskTurnOn
  \/ DiskTurnOff
  \/ DiskActionSetState

SignalSpec == SignalInit /\ [][SignalNext]_vars

\* ------------------------------------------------------------- Cpu
\* The speeds a p-state can have.
PstateSpeeds == {1, 2}

\* What a read outside speed_per_pstate_ can give.
PastTheEnd == PstateSpeeds \cup {0}

\* Cpu::Cpu: the peak speed is the one of the first p-state; pstate_ and
\* core_count_ have their defaults, there is no constraint yet (constraint_
\* holds the constraint once there is one).
Cpu(speed_per_pstate) ==
  [speed_per_pstate_ |-> speed_per_pstate,
   pstate_ |-> 0, core_count_ |-> 1,
   speed_ |-> [peak |-> Head(speed_per_pstate), scale |-> 1],
   sealed_ |-> FALSE, constraint_ |-> <<>>]

HostInit ==
  /\ EngineOne /\ RawIdle /\ CpuIdle /\ DiskIdle /\ IoIdle /\ SolverIdle /\ WaitanyIdle /\ ZoneIdle /\ ModelsIdle /\ LastIdle
  /\ \E n \in 1..MaxPstates : \E speeds \in [1..n -> PstateSpeeds] : cpu = Cpu(speeds)
  /\ cpu_calls = <<>> /\ speed_signals = 0

HostFrame(name) ==
  /\ Len(cpu_calls) < MaxCalls
  /\ cpu_calls' = Append(cpu_calls, name)
  /\ UNCHANGED outside_host

\* The speeds speed_per_pstate_[pstate_index] can be read as: the one of the
\* p-state, or anything when the index is negative or the size of the vector.
PstateSpeed(c, pstate_index) ==
  IF 0 <= pstate_index /\ pstate_index < Len(c.speed_per_pstate_)
  THEN {c.speed_per_pstate_[pstate_index + 1]}
  ELSE PastTheEnd

\* The capacity of a sealed Cpu that follows its speed: the derived class
\* updates the bound of the constraint when the speed changes.
on_speed_change(c) ==
  IF c.constraint_ = <<>> THEN c
  ELSE [c EXCEPT !.constraint_ = <<[bound |-> c.core_count_ * c.speed_.scale * c.speed_.peak]>>]

\* Cpu::set_pstate: the index, an int, may not be above the size of the vector.
HostSetPstate ==
  /\ HostFrame("set_pstate")
  /\ \E pstate_index \in (-1)..(Len(cpu.speed_per_pstate_) + 1) :
       IF pstate_index <= Len(cpu.speed_per_pstate_)
       THEN /\ \E new_peak_speed \in PstateSpeed(cpu, pstate_index) :
                 cpu' = on_speed_change([cpu EXCEPT !.pstate_ = pstate_index,
                                                    !.speed_.peak = new_peak_speed])
            /\ speed_signals' = speed_signals + 1
       ELSE UNCHANGED <<cpu, speed_signals>>

\* Cpu::set_core_count: refused once the Cpu is sealed, and for no core.
HostSetCoreCount ==
  /\ HostFrame("set_core_count")
  /\ \E core_count \in 0..MaxCores :
       IF ~cpu.sealed_ /\ core_count > 0
       THEN cpu' = [cpu EXCEPT !.core_count_ = core_count]
       ELSE UNCHANGED cpu
  /\ UNCHANGED speed_signals

\* Cpu::seal: the constraint of the Cpu is created, with a bound of the number
\* of cores times the speed of the first p-state.
Cpu_seal(c) ==
  [c EXCEPT !.constraint_ = <<[bound |-> c.core_count_ * Head(c.speed_per_pstate_)]>>,
            !.sealed_ = TRUE]

HostSeal ==
  /\ ~cpu.sealed_
  /\ HostFrame("seal")
  /\ cpu' = Cpu_seal(cpu)
  /\ UNCHANGED speed_signals

HostNext ==
  \/ HostSetPstate
  \/ HostSetCoreCount
  \/ HostSeal

HostSpec == HostInit /\ [][HostNext]_vars

\* ------------------------------------------------------------- wait_any, test_any
\* The states of an activity: under way, or terminal.
ActivityStates == {"RUNNING", "DONE", "FAILED"}

TerminalStates == {"DONE", "FAILED"}

\* A simcall observer whose result is 0 until it is set.
WaitanySimcallZero(call, timeout) ==
  [call |-> call, timeout_ |-> timeout, result_ |-> 0, status |-> "blocked",
   timed_out |-> FALSE, seen |-> <<>>]

\* ExecutionWaitanySimcall / IoWaitanySimcall: the observer of the simcall keeps
\* the timeout, and its result is -1 until it is set.
WaitanySimcall(call, timeout) ==
  [call |-> call, timeout_ |-> timeout, result_ |-> -1, status |-> "blocked",
   timed_out |-> FALSE, seen |-> <<>>]

\* The rank (from 0) of the last terminal activity, -1 when there is none.
LastTerminal(acts) ==
  LET T == {i \in 1..Len(acts) : acts[i] \in TerminalStates}
  IN  IF T = {} THEN -1 ELSE (CHOOSE i \in T : \A j \in T : j <= i) - 1

\* The rank (from 0) of the first terminal activity in input order, -1 when
\* there is none.
FirstTerminal(acts) ==
  LET T == {i \in 1..Len(acts) : acts[i] \in TerminalStates}
  IN  IF T = {} THEN -1 ELSE Min(T) - 1

\* The simcall is answered with the rank of an activity.
WaitanyAnswer(sc, rank, acts) ==
  [sc EXCEPT !.result_ = rank, !.status = "answered", !.seen = acts]

\* wait_any_for: the activities are looked at in input order; the first one
\* that is terminal already answers the simcall; else the issuer is blocked,
\* with a timer when the timeout is not negative.
wait_any_for(call, acts, timeout) ==
  LET sc == WaitanySimcall(call, timeout)
  IN  IF FirstTerminal(acts) # -1 THEN WaitanyAnswer(sc, FirstTerminal(acts), acts) ELSE sc

\* wait_any(x) is wait_any_for(x, -1).
wait_any(acts) == wait_any_for("wait_any", acts, -1)

\* test_any: the rank of the first terminal activity, or -1; the issuer is
\* never blocked.
test_any(acts) ==
  [WaitanySimcall("test_any", -1) EXCEPT
     !.result_ = FirstTerminal(acts), !.status = "answered", !.seen = acts]

WaitanyInit ==
  /\ EngineOne /\ RawIdle /\ CpuIdle /\ DiskIdle /\ IoIdle /\ SolverIdle /\ HostIdle /\ ZoneIdle /\ ModelsIdle /\ LastIdle
  /\ \E n \in 1..MaxActs : activities \in [1..n -> ActivityStates]
  /\ waitany = NoWaitany /\ waitany_calls = 0

\* A new simcall can be issued when the issuer is not blocked in one.
WaitanyFrame ==
  /\ waitany.status # "blocked"
  /\ waitany_calls < MaxCalls
  /\ waitany_calls' = waitany_calls + 1
  /\ UNCHANGED activities
  /\ UNCHANGED outside_waitany

WaitAny == WaitanyFrame /\ waitany' = wait_any(activities)

WaitAnyFor ==
  /\ WaitanyFrame
  /\ \E timeout \in {-1, 0, MaxDur} : waitany' = wait_any_for("wait_any_for", activities, timeout)

TestAny == WaitanyFrame /\ waitany' = test_any(activities)

\* The post() of an activity under way: it becomes terminal, and it answers
\* the simcall that waits for it with its rank.
WaitanyPost ==
  /\ \E i \in 1..Len(activities), st \in TerminalStates :
       /\ activities[i] = "RUNNING"
       /\ activities' = [activities EXCEPT ![i] = st]
       /\ waitany' = IF waitany.status = "blocked"
                     THEN WaitanyAnswer(waitany, i - 1, activities')
                     ELSE waitany
  /\ UNCHANGED waitany_calls
  /\ UNCHANGED outside_waitany

\* The timer of a blocked wait_any_for goes off: the issuer is answered, and
\* the result is left as it is.
WaitanyTimeout ==
  /\ waitany.status = "blocked" /\ waitany.timeout_ >= 0
  /\ waitany' = [waitany EXCEPT !.status = "answered", !.timed_out = TRUE, !.seen = activities]
  /\ UNCHANGED <<activities, waitany_calls>>
  /\ UNCHANGED outside_waitany

WaitanyNext ==
  \/ WaitAny
  \/ WaitAnyFor
  \/ TestAny
  \/ WaitanyPost
  \/ WaitanyTimeout

WaitanySpec == WaitanyInit /\ [][WaitanyNext]_vars

\* ------------------------------------------------------------- create_fatTree_zone
\* The number of levels of the trees of the tests, and the largest one drawn.
TreeLevels == 2

\* The entries of the vectors of the tests.
TreeEntries == {0, 1, 2, 4}

\* The bandwidths and latencies of the tests, and a negative bandwidth.
TreeBandwidths == {-1, 0, 1000000000}

TreeLatencies == {-10, 0, 10}

\* A vector that has one entry per level, whatever the entries are.
RightLength(v, levels) == Len(v) = levels

\* A vector of the description that is accepted: one entry per level, none of
\* them 0.
ValidVector(v, levels) == Len(v) = levels /\ \A i \in 1..Len(v) : v[i] > 0

\* The parameters that create_fatTree_zone accepts.
ValidFatTree(ft) ==
  /\ ft.levels >= 1
  /\ ValidVector(ft.down, ft.levels)
  /\ ValidVector(ft.up, ft.levels)
  /\ ValidVector(ft.count, ft.levels)
  /\ ft.bandwidth > 0
  /\ ft.latency >= 0

\* create_fatTree_zone: the zone, or std::invalid_argument.
create_fatTree_zone(ft) == IF ValidFatTree(ft) THEN "zone" ELSE "invalid_argument"

ZoneInit ==
  /\ EngineOne /\ RawIdle /\ CpuIdle /\ DiskIdle /\ IoIdle /\ SolverIdle /\ HostIdle /\ WaitanyIdle /\ ModelsIdle /\ LastIdle
  /\ \E levels \in 0..TreeLevels, nd \in 1..TreeLevels, nu \in 1..TreeLevels, nc \in 1..TreeLevels :
       \E down \in [1..nd -> TreeEntries], up \in [1..nu -> TreeEntries],
          count \in [1..nc -> TreeEntries], bandwidth \in TreeBandwidths, latency \in TreeLatencies :
         fat_tree = [levels |-> levels, down |-> down, up |-> up, count |-> count,
                     bandwidth |-> bandwidth, latency |-> latency]
  /\ fat_tree_result = "none" /\ netzones = 0

\* The call of create_fatTree_zone on the description.
CreateFatTreeZone ==
  /\ fat_tree_result = "none"
  /\ fat_tree_result' = create_fatTree_zone(fat_tree)
  /\ netzones' = IF fat_tree_result' = "zone" THEN netzones + 1 ELSE netzones
  /\ UNCHANGED fat_tree
  /\ UNCHANGED outside_zone

ZoneNext == CreateFatTreeZone

ZoneSpec == ZoneInit /\ [][ZoneNext]_vars

\* ------------------------------------------------------------- TorusZone
MaxDims == 2

MaxNodes == 20

\* The sizes a dimension can have.
TorusSizes == 1..5

RECURSIVE Product(_)
Product(s) == IF s = <<>> THEN 1 ELSE Head(s) * Product(Tail(s))

\* dim_product when the loops are at the dimension j (from 1): the product of
\* the sizes of the dimensions before it.
DimProduct(dimensions, j) == Product(SubSeq(dimensions, 1, j - 1))

\* (id / dim_product) % cur_dim: the coordinate of the node in the dimension j.
Coord(dimensions, id, j) == (id \div DimProduct(dimensions, j)) % dimensions[j]

\* ClusterBase: the links of the node id are at consecutive positions, the
\* loopback first, then the limiter, then one link per dimension.
node_pos(z, id) ==
  id * (Len(z.dimensions_) + (IF z.has_loopback_ THEN 1 ELSE 0) + (IF z.has_limiter_ THEN 1 ELSE 0))

node_pos_with_loopback(z, id) == node_pos(z, id) + (IF z.has_loopback_ THEN 1 ELSE 0)

node_pos_with_loopback_limiter(z, id) ==
  node_pos_with_loopback(z, id) + (IF z.has_limiter_ THEN 1 ELSE 0)

\* TorusZone::create_torus_links: the link of the rank in each dimension goes
\* to its neighbour on the right, around the dimension from its last node; it
\* is put at `position + j`.
create_torus_links(dimensions, id, rank, position) ==
  {[pos |-> position + (j - 1),
    link |-> [kind |-> "torus", from |-> id, dim |-> j,
              to |-> IF (rank \div DimProduct(dimensions, j)) % dimensions[j] = dimensions[j] - 1
                     THEN rank - (dimensions[j] - 1) * DimProduct(dimensions, j)
                     ELSE rank + DimProduct(dimensions, j)]] : j \in 1..Len(dimensions)}

\* fill_leaf_from_cb: the loopback and the limiter of the leaf, when the zone
\* has them.
LeafLinks(z, id) ==
  (IF z.has_loopback_
   THEN {[pos |-> node_pos(z, id), link |-> [kind |-> "loopback", from |-> id, dim |-> 0, to |-> id]]}
   ELSE {})
  \cup
  (IF z.has_limiter_
   THEN {[pos |-> node_pos_with_loopback(z, id),
          link |-> [kind |-> "limiter", from |-> id, dim |-> 0, to |-> id]]}
   ELSE {})

\* s4u::create_torus_zone: the zone with its topology, and the links of each of
\* its tot_elements leaves, which have the ids 0, 1, ... in the zone.
create_torus_zone(dimensions, has_loopback, has_limiter) ==
  LET z == [dimensions_ |-> dimensions, has_loopback_ |-> has_loopback, has_limiter_ |-> has_limiter]
      placed == UNION {LeafLinks(z, i) \cup
                       create_torus_links(dimensions, i, i, node_pos_with_loopback_limiter(z, i)) :
                         i \in 0..(Product(dimensions) - 1)}
  IN  [dimensions_ |-> dimensions, has_loopback_ |-> has_loopback, has_limiter_ |-> has_limiter,
       private_links_ |-> [p \in {e.pos : e \in placed} |-> (CHOOSE e \in placed : e.pos = p).link]]

\* get_uplink_from(position) and get_downlink_to(position): the link at the
\* position, taken up or down; a position without link gives no link.
NoLink == [kind |-> "none", from |-> -1, dim |-> 0, to |-> -1]

LinkAt(z, position, up) ==
  [link |-> IF position \in DOMAIN z.private_links_ THEN z.private_links_[position] ELSE NoLink,
   up |-> up]

\* A routing that always goes to the right.
TorusGoesRightAlways(my, target, cur_dim) == TRUE

\* The test of lines 129-133: the target is on the right without wrap-around,
\* or the wrap-around must be used to reach it. The coordinates are those of
\* the source and of the destination.
TorusGoesRight(my, target, cur_dim) ==
  \/ target > my /\ target <= my + cur_dim \div 2
  \/ my > cur_dim \div 2 /\ (my + cur_dim \div 2) % cur_dim >= target

\* The body of the for loop of lines 124-158: the first dimension in which the
\* current node is not at the coordinate of the destination gives the next
\* node and the link to it; with no such dimension the next node is 0 and the
\* link is the one of the hop before. The sums are those of the unsigned ints
\* of the code: their results are ids of nodes, far below the wrap-around.
TorusHop(z, src, dst, current_node, linkOffset, use_lnk_up) ==
  LET dimensions == z.dimensions_
      differ == {j \in 1..Len(dimensions) :
                   Coord(dimensions, current_node, j) # Coord(dimensions, dst, j)}
  IN  IF differ = {}
      THEN [next_node |-> 0, linkOffset |-> linkOffset, use_lnk_up |-> use_lnk_up]
      ELSE LET j == Min(differ)
               cur_dim == dimensions[j]
               dim_product == DimProduct(dimensions, j)
           IN  IF TorusGoesRight(Coord(dimensions, src, j), Coord(dimensions, dst, j), cur_dim)
               THEN [next_node |-> IF Coord(dimensions, current_node, j) = cur_dim - 1
                                   THEN current_node + dim_product - dim_product * cur_dim
                                   ELSE current_node + dim_product,
                     linkOffset |-> node_pos_with_loopback_limiter(z, current_node) + (j - 1),
                     use_lnk_up |-> TRUE]
               ELSE LET next_node == IF Coord(dimensions, current_node, j) = 0
                                     THEN current_node - dim_product + dim_product * cur_dim
                                     ELSE current_node - dim_product
                    IN  [next_node |-> next_node,
                         linkOffset |-> node_pos_with_loopback_limiter(z, next_node) + (j - 1),
                         use_lnk_up |-> FALSE]

\* The while loop of lines 122-174, and the limiter of the destination after
\* it. The loop is followed for `fuel` hops: a loop that has not ended then has
\* not terminated.
RECURSIVE TorusWalk(_, _, _, _, _, _, _, _)
TorusWalk(z, src, dst, current_node, linkOffset, use_lnk_up, link_list, fuel) ==
  IF current_node = dst
  THEN [link_list_ |-> IF z.has_limiter_
                       THEN Append(link_list, LinkAt(z, node_pos_with_loopback(z, dst), FALSE))
                       ELSE link_list,
        terminated |-> TRUE]
  ELSE IF fuel = 0 THEN [link_list_ |-> link_list, terminated |-> FALSE]
  ELSE LET hop == TorusHop(z, src, dst, current_node, linkOffset, use_lnk_up)
           limited == IF z.has_limiter_
                      THEN Append(link_list, LinkAt(z, node_pos_with_loopback(z, current_node), TRUE))
                      ELSE link_list
       IN  TorusWalk(z, src, dst, hop.next_node, hop.linkOffset, hop.use_lnk_up,
                     Append(limited, LinkAt(z, hop.linkOffset, hop.use_lnk_up)), fuel - 1)

\* TorusZone::get_local_route(src, dst, route, lat), the route being empty
\* before the call.
get_local_route(z, src, dst) ==
  IF dst.is_router \/ src.is_router THEN [link_list_ |-> <<>>, terminated |-> TRUE]
  ELSE IF src.id = dst.id /\ z.has_loopback_
  THEN [link_list_ |-> <<LinkAt(z, node_pos(z, src.id), TRUE)>>, terminated |-> TRUE]
  ELSE TorusWalk(z, src.id, dst.id, src.id, (Len(z.dimensions_) + 1) * src.id, FALSE, <<>>,
                 Product(z.dimensions_) + 1)

\* The netpoints of the zone: its leaves, and a router after them.
NetPoints(z) ==
  {[id |-> i, is_router |-> FALSE] : i \in 0..(Product(z.dimensions_) - 1)}
  \cup {[id |-> Product(z.dimensions_), is_router |-> TRUE]}

\* A torus zone has been created.
TorusInit ==
  /\ EngineOne /\ RawIdle /\ CpuIdle /\ DiskIdle
  /\ IoIdle /\ SolverIdle /\ HostIdle /\ WaitanyIdle /\ ZoneIdle /\ ModelsIdle /\ DepIdle /\ ChooseIdle
  /\ RegistryIdle /\ SignalIdle
  /\ \E n \in 1..MaxDims : \E dimensions \in [1..n -> TorusSizes] :
       /\ Product(dimensions) <= MaxNodes
       /\ \E has_loopback \in BOOLEAN, has_limiter \in BOOLEAN :
            torus = create_torus_zone(dimensions, has_loopback, has_limiter)
  /\ torus_route = NoRoute

\* A route is asked between two netpoints of the zone, once.
TorusGetLocalRoute ==
  /\ ~torus_route.called
  /\ \E src \in NetPoints(torus), dst \in NetPoints(torus) :
       torus_route' = [called |-> TRUE, src |-> src, dst |-> dst,
                       route |-> get_local_route(torus, src, dst)]
  /\ UNCHANGED torus
  /\ UNCHANGED outside_torus

TorusNext == TorusGetLocalRoute

TorusSpec == TorusInit /\ [][TorusNext]_vars

\* ------------------------------------------------------------- Api::simcall_check_dependency
\* The rank of a call in enum class Simcall, which `req1->call_ > req2->call_`
\* compares: the calls are declared in the order ISEND, IRECV, WAIT, TEST.
SimcallRank(call) ==
  CASE call = "COMM_ISEND" -> 3
    [] call = "COMM_IRECV" -> 5
    [] call = "COMM_WAIT" -> 7
    [] call = "COMM_TEST" -> 8
    [] OTHER -> 10

\* A CommImpl as the function reads it; 0 is nullptr. The side of the sender
\* (src_actor_, src_buff_) and the side of the receiver are each there or not.
CommSides == {[actor |-> 0, buff |-> 0], [actor |-> 1, buff |-> 1], [actor |-> 2, buff |-> 2]}

Comms ==
  {[src_actor_ |-> s.actor, src_buff_ |-> s.buff, dst_actor_ |-> d.actor, dst_buff_ |-> d.buff,
    type_ |-> t, mbox_cpy |-> m] : s \in CommSides, d \in CommSides, t \in {"SEND", "RECEIVE"}, m \in 1..2}

\* The simcalls of an issuer: an isend or irecv on a mailbox with a buffer, a
\* wait on a communication with or without timeout, a test on a communication
\* or on none, a simcall of another kind. `comm` is <<>> or holds the
\* communication.
Requests(issuer) ==
  {[issuer_ |-> issuer, call_ |-> call, timeout |-> -1, mbox |-> m, buff |-> b, comm |-> <<>>] :
     call \in {"COMM_ISEND", "COMM_IRECV"}, m \in 1..2, b \in 1..2}
  \cup {[issuer_ |-> issuer, call_ |-> "COMM_WAIT", timeout |-> t, mbox |-> 0, buff |-> 0, comm |-> <<c>>] :
          t \in {-1, 1}, c \in Comms}
  \cup {[issuer_ |-> issuer, call_ |-> "COMM_TEST", timeout |-> -1, mbox |-> 0, buff |-> 0, comm |-> cs] :
          cs \in {<<>>} \cup {<<c>> : c \in Comms}}
  \cup {[issuer_ |-> issuer, call_ |-> "MUTEX_LOCK", timeout |-> -1, mbox |-> 0, buff |-> 0, comm |-> <<>>]}

\* A check that takes the two requests as they are given.
DepAsGiven(a, b) == <<a, b>>

\* Lines 275-279: the two requests, the one of lower call first.
DepInOrder(a, b) == IF SimcallRank(a.call_) > SimcallRank(b.call_) THEN <<b, a>> ELSE <<a, b>>

\* Lines 326-329 and 342-347: two communications that have the same buffers, or
\* all their buffers and none in common where it matters, are independent.
DepBuffersApart(comm1, comm2) ==
  \/ comm1.src_buff_ = comm2.src_buff_ /\ comm1.dst_buff_ = comm2.dst_buff_
  \/ /\ comm1.src_buff_ # 0 /\ comm1.dst_buff_ # 0 /\ comm2.src_buff_ # 0 /\ comm2.dst_buff_ # 0
     /\ comm1.dst_buff_ # comm2.src_buff_ /\ comm1.dst_buff_ # comm2.dst_buff_
     /\ comm2.dst_buff_ # comm1.src_buff_

\* Lines 289-308: an isend or irecv against a wait without timeout.
DepStartAgainstWait(req1, comm2) ==
  \/ req1.mbox # comm2.mbox_cpy
  \/ req1.issuer_ # comm2.src_actor_ /\ req1.issuer_ # comm2.dst_actor_
  \/ req1.call_ = "COMM_ISEND" /\ comm2.type_ = "SEND" /\ comm2.src_buff_ # req1.buff
  \/ req1.call_ = "COMM_IRECV" /\ comm2.type_ = "RECEIVE" /\ comm2.dst_buff_ # req1.buff

\* A test has no communication, or one without both buffers.
DepTestUnmatched(req) ==
  req.comm = <<>> \/ req.comm[1].src_buff_ = 0 \/ req.comm[1].dst_buff_ = 0

\* Lines 284-331: the requests are not of the same call. What the function can
\* return: one value, or any when it reads a communication through nullptr.
DepDifferentCalls(req1, req2) ==
  IF req1.call_ = "COMM_IRECV" /\ req2.call_ = "COMM_ISEND" THEN {FALSE}
  ELSE IF /\ req1.call_ \in {"COMM_IRECV", "COMM_ISEND"} /\ req2.call_ = "COMM_WAIT"
          /\ req2.comm = <<>>
  THEN BOOLEAN
  ELSE IF /\ req1.call_ \in {"COMM_IRECV", "COMM_ISEND"} /\ req2.call_ = "COMM_WAIT"
          /\ DepStartAgainstWait(req1, req2.comm[1])
  THEN {FALSE}
  ELSE IF req1.call_ = "COMM_TEST" /\ req2.call_ = "COMM_WAIT" /\ req1.comm = <<>>
  THEN BOOLEAN
  ELSE IF /\ req1.call_ = "COMM_TEST" /\ req2.call_ = "COMM_WAIT"
          /\ (req1.comm[1].src_actor_ = 0 \/ req1.comm[1].dst_actor_ = 0)
  THEN {FALSE}
  ELSE IF req1.call_ = "COMM_TEST" /\ DepTestUnmatched(req1) THEN {FALSE}
  ELSE IF req2.call_ = "COMM_TEST" /\ DepTestUnmatched(req2) THEN {FALSE}
  ELSE IF /\ req1.call_ = "COMM_TEST" /\ req2.call_ = "COMM_WAIT"
          /\ DepBuffersApart(req1.comm[1], req2.comm[1])
  THEN {FALSE}
  ELSE {TRUE}

\* Lines 334-352: the requests are of the same call.
DepSameCall(req1, req2) ==
  CASE req1.call_ \in {"COMM_ISEND", "COMM_IRECV"} -> {req1.mbox = req2.mbox}
    [] req1.call_ = "COMM_WAIT" ->
         IF req1.comm = <<>> \/ req2.comm = <<>> THEN BOOLEAN
         ELSE {~DepBuffersApart(req1.comm[1], req2.comm[1])}
    [] OTHER -> {TRUE}

\* Api::simcall_check_dependency(req1, req2): what it can return.
simcall_check_dependency(a, b) ==
  IF a.issuer_ = b.issuer_ THEN {FALSE}
  ELSE IF a.call_ \notin {"COMM_ISEND", "COMM_IRECV", "COMM_TEST", "COMM_WAIT"} THEN {TRUE}
  ELSE IF b.call_ \notin {"COMM_ISEND", "COMM_IRECV", "COMM_TEST", "COMM_WAIT"} THEN {TRUE}
  ELSE IF \/ a.call_ = "COMM_WAIT" /\ a.timeout > 0
          \/ b.call_ = "COMM_WAIT" /\ b.timeout > 0
  THEN {TRUE}
  ELSE LET req1 == DepInOrder(a, b)[1]
           req2 == DepInOrder(a, b)[2]
       IN  IF req1.call_ # req2.call_ THEN DepDifferentCalls(req1, req2)
           ELSE DepSameCall(req1, req2)

\* Two simcalls, the first of the actor 1.
DepInit ==
  /\ EngineOne /\ RawIdle /\ CpuIdle /\ DiskIdle
  /\ IoIdle /\ SolverIdle /\ HostIdle /\ WaitanyIdle /\ ZoneIdle /\ ModelsIdle /\ TorusIdle /\ ChooseIdle
  /\ RegistryIdle /\ SignalIdle
  /\ dep_req1 \in Requests(1)
  /\ dep_req2 \in Requests(1) \cup Requests(2)
  /\ dep_result = <<>>

\* The dependency of the two simcalls is asked, in both orders.
DepCheck ==
  /\ dep_result = <<>>
  /\ \E r12 \in simcall_check_dependency(dep_req1, dep_req2),
        r21 \in simcall_check_dependency(dep_req2, dep_req1) :
       dep_result' = <<r12, r21>>
  /\ UNCHANGED <<dep_req1, dep_req2>>
  /\ UNCHANGED outside_dep

DepNext == DepCheck

DepSpec == DepInit /\ [][DepNext]_vars

\* ------------------------------------------------------------- MC_state_choose_request_for_process
MaxComms == 4

\* request_is_enabled_by_idx for a waitany or testany: the communication of
\* that rank has its sender and its receiver. `comms` tells it of each.
request_is_enabled_by_idx(actor, idx) == actor.comms[idx + 1]

\* mc::actor_is_enabled: a waitany is enabled when one of its communications
\* is; a testany always is.
actor_is_enabled(actor) ==
  actor.call_ = "COMM_WAITANY" => \E i \in 1..Len(actor.comms) : actor.comms[i]

\* A loop that takes the next communication, enabled or not.
NextConsidered(actor, times_considered) ==
  IF times_considered < Len(actor.comms)
  THEN [transition |-> times_considered, times_considered_ |-> times_considered + 1]
  ELSE [transition |-> -1, times_considered_ |-> times_considered]

\* The while loop of lines 121-127 (131-137 for a testany): the ranks are gone
\* through from times_considered_ on; the first that is enabled is the one of
\* the transition, and times_considered_ is left after it; -1 when none is.
RECURSIVE NextEnabled(_, _)
NextEnabled(actor, times_considered) ==
  IF times_considered < Len(actor.comms)
  THEN IF request_is_enabled_by_idx(actor, times_considered)
       THEN [transition |-> times_considered, times_considered_ |-> times_considered + 1]
       ELSE NextEnabled(actor, times_considered + 1)
  ELSE [transition |-> -1, times_considered_ |-> times_considered]

\* MC_state_choose_request_for_process for an actor in a waitany or a testany
\* that has no observer: the state of the actor in the exploration, the
\* times_considered_ of the transition and whether a request is returned.
MC_state_choose_request_for_process(procstate, actor) ==
  IF ~actor_is_enabled(actor)
  THEN [procstate |-> procstate, times_considered_ |-> -1, req |-> FALSE]
  ELSE LET found == NextEnabled(actor, procstate.times_considered_)
       IN  [procstate |-> [times_considered_ |-> found.times_considered_,
                           done |-> procstate.done \/ found.times_considered_ >= Len(actor.comms)],
            times_considered_ |-> found.transition,
            req |-> found.transition # -1]

\* An actor in a waitany or testany over some communications, in a state of
\* the exploration in which it is to be interleaved.
ChooseInit ==
  /\ EngineOne /\ RawIdle /\ CpuIdle /\ DiskIdle
  /\ IoIdle /\ SolverIdle /\ HostIdle /\ WaitanyIdle /\ ZoneIdle /\ ModelsIdle /\ TorusIdle /\ DepIdle
  /\ RegistryIdle /\ SignalIdle
  /\ \E call \in {"COMM_WAITANY", "COMM_TESTANY"}, n \in 0..MaxComms :
       \E comms \in [1..n -> BOOLEAN] : mc_actor = [call_ |-> call, comms |-> comms]
  /\ mc_procstate = [times_considered_ |-> 0, done |-> FALSE]
  /\ mc_chosen = <<>>

\* MC_state_choose_request asks for the next transition of the actor, which is
\* still to do; what it gets is recorded.
ChooseRequest ==
  /\ ~mc_procstate.done
  /\ Len(mc_chosen) <= MaxComms
  /\ LET r == MC_state_choose_request_for_process(mc_procstate, mc_actor)
     IN  /\ mc_procstate' = r.procstate
         /\ mc_chosen' = Append(mc_chosen, [req |-> r.req, times_considered_ |-> r.times_considered_])
  /\ UNCHANGED mc_actor
  /\ UNCHANGED outside_choose

ChooseNext == ChooseRequest

ChooseSpec == ChooseInit /\ [][ChooseNext]_vars

\* ------------------------------------------------------------- EngineImpl::add_model
\* The resource models the program builds, each with the name get_name() gives;
\* two of them may have the same name.
MaxModelObjects == 3

ModelObjects == 1..MaxModelObjects

ModelNames == {"Cpu", "Network", "Disk"}

\* models_prio_.find(name) != models_prio_.end()
Registered(prio, name) == name \in DOMAIN prio

\* models_prio_[name] = model
Bind(prio, name, model) ==
  [n \in DOMAIN prio \cup {name} |-> IF n = name THEN model ELSE prio[n]]

\* An add_model that does not look at the dependencies.
add_model_any_dependency(names, registry, prio, model, dependencies) ==
  IF Registered(prio, names[model])
  THEN [models_ |-> registry, models_prio_ |-> prio, failed |-> "already exists"]
  ELSE [models_ |-> Append(registry, model), models_prio_ |-> Bind(prio, names[model], model),
        failed |-> "none"]

\* EngineImpl::add_model(model, dependencies): the assertion of line 115 on the
\* name of the model, the assertions of lines 118-121 on the name of each
\* dependency, then the model is pushed to models_ and bound to its name in
\* models_prio_. A failed assertion ends the program before the two.
add_model(names, registry, prio, model, dependencies) ==
  IF Registered(prio, names[model])
  THEN [models_ |-> registry, models_prio_ |-> prio, failed |-> "already exists"]
  ELSE IF \E dep \in dependencies : ~Registered(prio, names[dep])
  THEN [models_ |-> registry, models_prio_ |-> prio, failed |-> "doesn't exists"]
  ELSE [models_ |-> Append(registry, model), models_prio_ |-> Bind(prio, names[model], model),
        failed |-> "none"]

\* The engine before any model is registered.
RegistryInit ==
  /\ EngineOne /\ RawIdle /\ CpuIdle /\ DiskIdle
  /\ IoIdle /\ SolverIdle /\ HostIdle /\ WaitanyIdle /\ ZoneIdle /\ ModelsIdle
  /\ TorusIdle /\ DepIdle /\ ChooseIdle /\ SignalIdle
  /\ model_name \in [ModelObjects -> ModelNames]
  /\ models_ = <<>> /\ models_prio_ = <<>> /\ add_model_call = NoAddModel

\* A call of add_model; none follows a failed assertion.
AddModel ==
  /\ add_model_call.failed = "none"
  /\ \E model \in ModelObjects, dependencies \in SUBSET ModelObjects :
       LET r == add_model(model_name, models_, models_prio_, model, dependencies)
       IN  /\ models_' = r.models_
           /\ models_prio_' = r.models_prio_
           /\ add_model_call' = [model |-> model, dependencies |-> dependencies, failed |-> r.failed]
  /\ UNCHANGED model_name
  /\ UNCHANGED outside_registry

RegistryNext == AddModel

RegistrySpec == RegistryInit /\ [][RegistryNext]_vars

\* ------------------------------------------------------------- CpuModel
\* Arithmetic on fractions.
QAdd(a, b) == Q(a.num * b.den + b.num * a.den, a.den * b.den)
QSub(a, b) == Q(a.num * b.den - b.num * a.den, a.den * b.den)
QMul(a, b) == Q(a.num * b.num, a.den * b.den)
QDiv(a, b) == Q(a.num * b.den, a.den * b.num)
QLe(a, b) == a.num * b.den <= b.num * a.den
QMin(S) == CHOOSE x \in S : \A y \in S : QLe(x, y)

\* NO_MAX_DURATION
NO_MAX_DURATION == Q(-1, 1)

\* The costs and the maximal durations of the actions.
Costs == {Q(w * Speed, 1) : w \in 0..MaxWork}

Durations == {NO_MAX_DURATION} \cup {Q(d, 1) : d \in 1..MaxDur}

\* The ranks of the started actions.
Started(actions) == {i \in 1..Len(actions) : actions[i].state = "STARTED"}

\* The share of each started action: they all have weight 1 on the one
\* constraint of the Cpu.
Value(actions) == Q(Speed, Cardinality(Started(actions)))

\* Action::update_remains and update_max_duration: what is left, 0 at least.
QLeft(x, done) == IF QLe(x, done) THEN Q(0, 1) ELSE QSub(x, done)

\* The date at which the action has an event if the shares stay as they are,
\* seen from now: the end of its work or of its maximal duration.
EventDelay(remains, value, max_duration) ==
  QMin({QDiv(remains, value)} \cup (IF max_duration = NO_MAX_DURATION THEN {} ELSE {max_duration}))

\* Model::next_occurring_event_full: the delay to the first event of the
\* started actions.
next_occurring_event_full(actions, value) ==
  QMin({EventDelay(actions[i].remains, value, actions[i].max_duration) : i \in Started(actions)})

\* CpuModel::update_actions_state_full
update_actions_state_full(actions, value, delta) ==
  [i \in 1..Len(actions) |->
     IF actions[i].state # "STARTED" THEN actions[i]
     ELSE LET remains == QLeft(actions[i].remains, QMul(value, delta))
              max_duration == IF actions[i].max_duration = NO_MAX_DURATION THEN NO_MAX_DURATION
                              ELSE QLeft(actions[i].max_duration, delta)
              finished == \/ (QLe(remains, Q(0, 1)) /\ actions[i].penalty > 0)
                          \/ (max_duration # NO_MAX_DURATION /\ QLe(max_duration, Q(0, 1)))
          IN  [actions[i] EXCEPT !.remains = remains, !.max_duration = max_duration,
                                 !.state = IF finished THEN "FINISHED" ELSE @]]

\* CpuAction::update_remains_lazy: the work done since the last update, at the
\* share the action had, is taken off; the date and the share are remembered.
update_remains_lazy(a, now, value) ==
  LET delta == QSub(now, a.last_update)
  IN  [a EXCEPT !.remains = IF a.remains.num > 0 THEN QLeft(@, QMul(a.last_value, delta)) ELSE @,
                !.last_update = now,
                !.last_value = value]

\* Model::next_occurring_event_lazy: the started actions are brought up to
\* date.
LazyUpdated(actions, now, value) ==
  [i \in 1..Len(actions) |->
     IF actions[i].state = "STARTED" THEN update_remains_lazy(actions[i], now, value)
     ELSE actions[i]]

\* ... and each has its entry in the heap, at the date of its next event.
HeapOf(actions, now) ==
  {[date |-> QAdd(now, EventDelay(actions[i].remains, actions[i].last_value,
                                  IF actions[i].max_date = NO_MAX_DURATION THEN NO_MAX_DURATION
                                  ELSE QSub(actions[i].max_date, now))),
    id |-> i] : i \in Started(actions)}

\* top_date(): the earliest date of the heap.
top_date(heap) == QMin({e.date : e \in heap})

\* A lazy update that takes one action from the heap, not all that are due.
PoppedOnce(heap, now) ==
  IF heap = {} \/ top_date(heap) # now THEN {}
  ELSE {(CHOOSE e \in heap : e.date = top_date(heap)).id}

\* CpuModel::update_actions_state_lazy: the actions popped from the heap while
\* the date of its top is now.
RECURSIVE Popped(_, _)
Popped(heap, now) ==
  IF heap = {} \/ top_date(heap) # now THEN {}
  ELSE LET top == CHOOSE e \in heap : e.date = top_date(heap)
       IN  {top.id} \cup Popped(heap \ {top}, now)

\* ... and they are finished.
update_actions_state_lazy(actions, heap, now) ==
  [i \in 1..Len(actions) |->
     IF i \in Popped(heap, now) THEN [actions[i] EXCEPT !.state = "FINISHED"] ELSE actions[i]]

ModelsInit ==
  /\ EngineOne /\ RawIdle /\ CpuIdle /\ DiskIdle
  /\ IoIdle /\ SolverIdle /\ HostIdle /\ WaitanyIdle /\ ZoneIdle /\ ModelsIdle /\ LastIdle

\* An execution is started: the same action in both models.
ModelsExecutionStart ==
  /\ Len(full_actions) < MaxExecs
  /\ \E cost \in Costs, max_duration \in Durations :
       /\ full_actions' = Append(full_actions,
                                 [remains |-> cost, max_duration |-> max_duration,
                                  penalty |-> 1, state |-> "STARTED"])
       /\ lazy_actions' = Append(lazy_actions,
                                 [remains |-> cost, last_update |-> model_now,
                                  last_value |-> Q(0, 1),
                                  max_date |-> IF max_duration = NO_MAX_DURATION THEN NO_MAX_DURATION
                                               ELSE QAdd(model_now, max_duration),
                                  state |-> "STARTED"])
  /\ UNCHANGED <<action_heap, model_now, full_done, lazy_done, advances>>
  /\ UNCHANGED outside_models

\* surf_solve: the shares are solved, each model tells its next event, the
\* clock advances to it, or less far when something else comes first, and each
\* model updates its actions.
ModelsAdvance ==
  /\ advances < MaxAdvances
  /\ Started(full_actions) # {}
  /\ LET value == Value(full_actions)
         lazy == LazyUpdated(lazy_actions, model_now, value)
         heap == HeapOf(lazy, model_now)
         next == next_occurring_event_full(full_actions, value)
     IN  \E delta \in {next, Q(next.num, 2 * next.den)} :
           LET now == QAdd(model_now, delta)
           IN  /\ model_now' = now
               /\ full_actions' = update_actions_state_full(full_actions, value, delta)
               /\ lazy_actions' = update_actions_state_lazy(lazy, heap, now)
               /\ action_heap' = {e \in heap : e.id \notin Popped(heap, now)}
               /\ full_done' = full_done \cup
                    {[id |-> i, date |-> now] :
                       i \in {j \in Started(full_actions) : full_actions'[j].state = "FINISHED"}}
               /\ lazy_done' = lazy_done \cup {[id |-> i, date |-> now] : i \in Popped(heap, now)}
  /\ advances' = advances + 1
  /\ UNCHANGED outside_models

ModelsNext ==
  \/ ModelsExecutionStart
  \/ ModelsAdvance

ModelsSpec == ModelsInit /\ [][ModelsNext]_vars

\* ------------------------------------------------------------- lmm::System
\* The max-min fair solver, by progressive filling. Shares are fractions: a
\* share is held as its product with LmmScale(n), n the number of variables,
\* which every denominator that can come up with unit coefficients divides.
RECURSIVE Factorial(_)
Factorial(n) == IF n <= 1 THEN 1 ELSE n * Factorial(n - 1)

RECURSIVE LmmScale(_)
LmmScale(n) == IF n <= 1 THEN 1 ELSE Factorial(n) * LmmScale(n - 1)

\* The sum of the values of a function.
RECURSIVE SumFn(_)
SumFn(f) ==
  IF DOMAIN f = {} THEN 0
  ELSE LET i == CHOOSE j \in DOMAIN f : TRUE
       IN f[i] + SumFn([j \in DOMAIN f \ {i} |-> f[j]])

\* A coefficient that looks at the first constraint of the variable only.
CoefFirst(var, k) ==
  IF var.cnsts # <<>> /\ var.cnsts[1].cnst = k THEN var.cnsts[1].coef ELSE 0

\* The coefficient of a variable on the constraint k; 0 when it is not attached.
Coef(var, k) ==
  SumFn([e \in {e \in 1..Len(var.cnsts) : var.cnsts[e].cnst = k} |-> var.cnsts[e].coef])

\* What the variables of U ask of the constraint k: the sum of weight times
\* coefficient.
Usage(vs, U, k) == SumFn([i \in U |-> vs[i].sharing_penalty * Coef(vs[i], k)])

\* One round of the filling and the following ones. st.value are the shares
\* given so far, st.fixed the variables that have theirs, st.residual what is
\* left of each constraint. The bottleneck is the constraint with the least
\* rate, the first created one among equals; every variable without share on
\* it gets its weight times the rate, or its bound if that is less.
RECURSIVE LmmFill(_, _)
LmmFill(vs, st) ==
  LET U == {i \in 1..Len(vs) : i \notin st.fixed /\ vs[i].sharing_penalty > 0}
      K == {k \in 1..Len(st.residual) : Usage(vs, U, k) > 0}
  IN IF K = {} THEN st.value
     ELSE
       LET Least(k) == \A j \in K :
                         st.residual[k] * Usage(vs, U, j) <= st.residual[j] * Usage(vs, U, k)
           b == Min({k \in K : Least(k)})
           r == st.residual[b] \div Usage(vs, U, b)
           now == {i \in U : Coef(vs[i], b) > 0}
           share(i) == IF vs[i].bound >= 0 /\ vs[i].bound * st.scale < vs[i].sharing_penalty * r
                       THEN vs[i].bound * st.scale
                       ELSE vs[i].sharing_penalty * r
       IN LmmFill(vs,
            [st EXCEPT
               !.value = [i \in 1..Len(vs) |-> IF i \in now THEN share(i) ELSE st.value[i]],
               !.fixed = st.fixed \cup now,
               !.residual = [k \in 1..Len(st.residual) |->
                               st.residual[k] - SumFn([i \in now |-> Coef(vs[i], k) * share(i)])]])

\* lmm::System::solve: the share of each variable, times LmmScale(number of
\* variables), for constraints of the given bounds.
lmm_solve(bounds, vs) ==
  LET scale == LmmScale(Len(vs))
  IN LmmFill(vs, [value |-> [i \in 1..Len(vs) |-> 0], fixed |-> {}, scale |-> scale,
                  residual |-> [k \in 1..Len(bounds) |-> bounds[k] * scale]])

\* The constraints a variable may be attached to: three, as for a disk.
NCnst == 3

\* The capacities of the constraints.
Caps == {5, 10}

\* The variable that is attached with coefficient 1 to the constraints of the
\* set S, in their order of creation, with the given weight.
RECURSIVE AttachAll(_, _)
AttachAll(var, S) ==
  IF S = {} THEN var
  ELSE AttachAll([var EXCEPT !.cnsts = Append(@, [cnst |-> Min(S), coef |-> 1])], S \ {Min(S)})

\* A system of NCnst shared constraints and of one to MaxVars unbounded
\* variables of weight 1, each attached to some of the constraints.
SolverInit ==
  /\ EngineOne /\ RawIdle /\ CpuIdle /\ DiskIdle /\ IoIdle /\ HostIdle /\ WaitanyIdle /\ ZoneIdle /\ ModelsIdle /\ LastIdle
  /\ lmm_bounds \in [1..NCnst -> Caps]
  /\ \E n \in 1..MaxVars :
       \E on \in [1..n -> SUBSET (1..NCnst) \ {{}}] :
         lmm_vs = [i \in 1..n |->
                     AttachAll([id |-> i, sharing_penalty |-> 1, bound |-> -1, cnsts |-> <<>>,
                                value |-> 0], on[i])]
  /\ lmm_values = <<>>

\* lmm::System::solve
LmmSolve ==
  /\ lmm_values = <<>>
  /\ lmm_values' = lmm_solve(lmm_bounds, lmm_vs)
  /\ UNCHANGED <<lmm_bounds, lmm_vs>>
  /\ UNCHANGED outside_solver

\* lmm::System::update_variable_penalty(var, 0): one variable is suspended,
\* and the system is to be solved again.
LmmSuspend ==
  /\ \E i \in 1..Len(lmm_vs) :
       /\ \A j \in 1..Len(lmm_vs) : lmm_vs[j].sharing_penalty > 0
       /\ lmm_vs' = [lmm_vs EXCEPT ![i].sharing_penalty = 0]
  /\ lmm_values' = <<>>
  /\ UNCHANGED lmm_bounds
  /\ UNCHANGED outside_solver

SolverNext ==
  \/ LmmSolve
  \/ LmmSuspend

SolverSpec == SolverInit /\ [][SolverNext]_vars

\* ------------------------------------------------------------- DiskS19Model
OpTypes == {"READ", "WRITE"}

\* Sizes of an Io, in bytes. A size of 0 is accepted.
Sizes == 0..MaxSize

\* lmm::System::variable_new(id, sharing_penalty, bound, number_of_constraints):
\* a variable attached to no constraint yet, with no share yet.
variable_new(id, sharing_penalty, bound) ==
  [id |-> id, sharing_penalty |-> sharing_penalty, bound |-> bound, cnsts |-> <<>>, value |-> 0]

\* lmm::System::expand(cnst, var, value): the variable is attached to the
\* constraint with that coefficient.
expand(cnst, var, value) ==
  [var EXCEPT !.cnsts = Append(@, [cnst |-> cnst, coef |-> value])]

\* An action that is made STARTED whatever the state of the disk.
DiskS19ActionStarted(cost, failed, type, variable) ==
  [type |-> type, cost |-> cost, remains |-> cost,
   state |-> "STARTED",
   max_duration |-> -1, variable |-> variable, sharing_penalty_ |-> 1, suspended_ |-> FALSE]

\* DiskS19Action::DiskS19Action: an action of that cost, FAILED when the disk
\* is off and STARTED else, without maximal duration.
DiskS19Action(cost, failed, type, variable) ==
  [type |-> type, cost |-> cost, remains |-> cost,
   state |-> IF failed THEN "FAILED" ELSE "STARTED",
   max_duration |-> -1, variable |-> variable, sharing_penalty_ |-> 1, suspended_ |-> FALSE]

\* An io_start that attaches the variable to the three constraints of the disk.
IoVariableAll(d, id, type) ==
  expand(d.constraint_write_,
         expand(d.constraint_read_, expand(d.constraint_, variable_new(id, 1, -1), 1), 1),
         1)

\* The variable DiskS19Model::io_start makes for the action `id`:
\* variable_new(action, 1.0, -1.0, 3), attached to the constraint of the disk
\* and then to its read or to its write constraint.
IoVariable(d, id, type) ==
  expand(IF type = "READ" THEN d.constraint_read_ ELSE d.constraint_write_,
         expand(d.constraint_, variable_new(id, 1, -1), 1),
         1)

\* DiskS19Model::io_start(disk, size, type)
io_start(size, type) ==
  /\ lmm_variables' = Append(lmm_variables, IoVariable(disk, Len(io_actions) + 1, type))
  /\ io_actions' = Append(io_actions,
                          DiskS19Action(size, ~disk.is_on_, type, Len(lmm_variables) + 1))

\* An Io is started on the disk, which is sealed.
IoStart ==
  /\ disk.sealed_
  /\ Len(io_actions) < MaxIo
  /\ \E size \in Sizes, type \in OpTypes : io_start(size, type)
  /\ UNCHANGED <<io_updates, disk_vars>>
  /\ UNCHANGED outside_io

\* The disk is turned off, once.
IoTurnOff == "turn_off" \notin Range(disk_calls) /\ DiskTurnOff

\* The bounds of the constraints of the system.
Bounds(system) == [k \in 1..Len(system) |-> system[k].bound]

\* Action::suspend and Action::resume on the action i, which is STARTED: the
\* variable gets penalty 0, or the sharing penalty of the action back.
IoSuspend ==
  /\ \E i \in 1..Len(io_actions) :
       /\ io_actions[i].state = "STARTED" /\ ~io_actions[i].suspended_
       /\ io_actions' = [io_actions EXCEPT ![i].suspended_ = TRUE]
       /\ lmm_variables' = [lmm_variables EXCEPT ![io_actions[i].variable].sharing_penalty = 0]
  /\ UNCHANGED <<io_updates, disk_vars>>
  /\ UNCHANGED outside_io

IoResume ==
  /\ \E i \in 1..Len(io_actions) :
       /\ io_actions[i].state = "STARTED" /\ io_actions[i].suspended_
       /\ io_actions' = [io_actions EXCEPT ![i].suspended_ = FALSE]
       /\ lmm_variables' = [lmm_variables EXCEPT
                              ![io_actions[i].variable].sharing_penalty =
                                 io_actions[i].sharing_penalty_]
  /\ UNCHANGED <<io_updates, disk_vars>>
  /\ UNCHANGED outside_io

\* rint(n / q) for n >= 0 and q > 0: the nearest integer, the even one of two.
Rint(n, q) ==
  LET f == n \div q
      rem == n % q
  IN IF 2 * rem < q THEN f
     ELSE IF 2 * rem > q THEN f + 1
     ELSE IF f % 2 = 0 THEN f ELSE f + 1

\* Action::update_remains(delta): the remaining work less delta, 0 at least.
update_remains(remains, delta) == IF remains <= delta THEN 0 ELSE remains - delta

\* Action::update_max_duration(delta), delta a fraction.
update_max_duration(max_duration, delta) ==
  IF max_duration = -1 THEN -1
  ELSE IF max_duration * delta.den <= delta.num THEN 0
  ELSE max_duration - delta.num \div delta.den

\* An update that finishes an action on its duration only.
FinishesOnDuration(remains, penalty, max_duration) ==
  max_duration # -1 /\ max_duration <= 0

\* The test of DiskS19Model::update_actions_state, lines 47-48.
Finishes(remains, penalty, max_duration) ==
  \/ remains <= 0 /\ penalty > 0
  \/ max_duration # -1 /\ max_duration <= 0

\* The body of the loop of DiskS19Model::update_actions_state for one started
\* action whose variable is var, delta being a fraction and var.value a share
\* times scale.
UpdateAction(a, var, delta, scale) ==
  LET remains == update_remains(a.remains, Rint(var.value * delta.num, scale * delta.den))
      max_duration == update_max_duration(a.max_duration, delta)
  IN [a EXCEPT !.remains = remains,
               !.max_duration = max_duration,
               !.state = IF Finishes(remains, var.sharing_penalty, max_duration)
                         THEN "FINISHED" ELSE @]

\* An update whose iterator is advanced after the action is finished: the
\* action that follows a finished one in the started set is not visited.
update_actions_state_late_increment(actions, variables, delta, scale) ==
  [i \in 1..Len(actions) |->
     IF /\ actions[i].state = "STARTED"
        /\ ~(/\ i > 1
              /\ actions[i - 1].state = "STARTED"
              /\ UpdateAction(actions[i - 1], variables[actions[i - 1].variable],
                              delta, scale).state = "FINISHED")
     THEN UpdateAction(actions[i], variables[actions[i].variable], delta, scale)
     ELSE actions[i]]

\* DiskS19Model::update_actions_state(now, delta): the actions of the started
\* set, and they only, are updated.
update_actions_state(actions, variables, delta, scale) ==
  [i \in 1..Len(actions) |->
     IF actions[i].state = "STARTED"
     THEN UpdateAction(actions[i], variables[actions[i].variable], delta, scale)
     ELSE actions[i]]

\* The variables with the shares the solver gives them. The variable of an
\* action that is not started any more has left the system.
Solved(system, variables, actions) ==
  LET live == [i \in 1..Len(variables) |->
                 IF actions[variables[i].id].state = "STARTED" THEN variables[i]
                 ELSE [variables[i] EXCEPT !.sharing_penalty = 0]]
      value == lmm_solve(Bounds(system), live)
  IN [i \in 1..Len(variables) |-> [variables[i] EXCEPT !.value = value[i]]]

\* The started actions that make progress.
Running(actions, variables) ==
  {i \in 1..Len(actions) : actions[i].state = "STARTED" /\ variables[actions[i].variable].value > 0}

\* Model::next_occurring_event: the delay, a fraction, after which the first of
\* the running actions has no work left.
next_occurring_event(actions, variables, scale) ==
  LET R == Running(actions, variables)
      first == CHOOSE i \in R : \A j \in R :
                 actions[i].remains * variables[actions[j].variable].value
                   <= actions[j].remains * variables[actions[i].variable].value
  IN [num |-> actions[first].remains * scale, den |-> variables[actions[first].variable].value]

\* The delays the clock can advance by, as the disk model sees it: up to its
\* next event, or less if something else happens before; any delay when the
\* model has no event.
Delays(actions, variables, scale) ==
  IF Running(actions, variables) = {} THEN {[num |-> 1, den |-> 1]}
  ELSE LET next == next_occurring_event(actions, variables, scale)
       IN {next, [num |-> next.num, den |-> 2 * next.den]}

\* surf_solve for the disk model: the shares are solved, the clock advances and
\* the started actions are updated.
IoUpdate ==
  /\ io_updates < MaxUpdates
  /\ io_actions # <<>>
  /\ LET variables == Solved(maxmin_system, lmm_variables, io_actions)
         scale == LmmScale(Len(lmm_variables))
     IN /\ lmm_variables' = variables
        /\ \E delta \in Delays(io_actions, variables, scale) :
             io_actions' = update_actions_state(io_actions, variables, delta, scale)
  /\ io_updates' = io_updates + 1
  /\ UNCHANGED disk_vars
  /\ UNCHANGED outside_io

IoNext ==
  \/ IoTurnOff
  \/ IoStart
  \/ IoSuspend
  \/ IoResume
  \/ IoUpdate

\* A disk that s4u::Disk::seal has sealed and given to its host, the three
\* constraints made in the order of the text; no Io yet.
IoInit ==
  /\ EngineOne /\ RawIdle /\ CpuIdle
  /\ \E r \in Bandwidths, w \in Bandwidths :
       LET d == DiskImpl(r, w)
           order == <<"read", "write", "aggregate">>
       IN /\ maxmin_system = constraint_new(<<>>, d, order)
          /\ disk = [d EXCEPT !.constraint_read_ = Created(<<>>, order, "read"),
                              !.constraint_write_ = Created(<<>>, order, "write"),
                              !.constraint_ = Created(<<>>, order, "aggregate"),
                              !.sealed_ = TRUE]
  /\ disk_signals = 0 /\ disk_calls = <<"seal">>
  /\ IoIdle /\ SolverIdle /\ HostIdle /\ WaitanyIdle /\ ZoneIdle /\ ModelsIdle /\ LastIdle

IoSpec == IoInit /\ [][IoNext]_vars

\* The two models that update their started actions in a loop over the started
\* set: the disk model with its Ios on a sealed disk, or the Cpu model with its
\* executions.
UpdateNext ==
  \/ disk.sealed_ /\ IoNext
  \/ ~disk.sealed_ /\ ModelsNext

UpdateSpec == (IoInit \/ ModelsInit) /\ [][UpdateNext]_vars

\* ------------------------------------------------------------- claims
NoDuplicate(q) == \A i, j \in 1..Len(q) : q[i] = q[j] => i = j

\* C1: in a sub-round, once run_all_actors has returned, the simcalls are handled
\* one by one in the order in which their issuers were inserted into
\* actors_to_run_ before the sub-round: whatever the position of the loop, the
\* issuers handled so far are exactly those of the actors inserted first that
\* came back with a simcall, in insertion order and each once; the actors that
\* came back without a simcall are skipped.
C1_DispatchInInsertionOrder ==
  pc = "handle" =>
    /\ h_i - 1 <= Len(to_run_at_call)
    /\ handled = SelectSeq(SubSeq(to_run_at_call, 1, h_i - 1), LAMBDA a : a \in issuers)
    /\ NoDuplicate(handled)
    /\ \A i \in 1..Len(to_run_at_call) :
         i >= h_i /\ to_run_at_call[i] \in issuers => to_run_at_call[i] \in unhandled

\* Two issuers were handled, in their insertion order, and the loop is over.
C1_Witness ==
  /\ pc = "handle" /\ h_i > Len(actors_that_ran_)
  /\ Len(handled) = 2 /\ handled[1] # handled[2]

\* The sequential context factory: run_all resumes the contexts one after the
\* other in the order of the run queue. SequentialStep is what the context of a
\* does to the state s when its step is d (a simcall, "EXIT", or "NONE" when it
\* was not resumed); InQueueOrder is the state after the contexts of q.
SequentialStep(s, a, d) ==
  IF d = "NONE" THEN s
  ELSE IF d = "EXIT"
       THEN [s EXCEPT !.actor_list_ = @ \ {a}, !.daemons_ = @ \ {a},
                      !.simcall[a] = "NONE", !.wannadie[a] = FALSE,
                      !.trash = Append(@, a)]
       ELSE [s EXCEPT !.simcall[a] = d]

RECURSIVE InQueueOrder(_, _, _)
InQueueOrder(s, q, d) ==
  IF q = <<>> THEN s
  ELSE InQueueOrder(SequentialStep(s, Head(q), d[Head(q)]), Tail(q), d)

C3_MaestroExclusivity ==
  [][ /\ ctx_running # {} =>
           UNCHANGED <<actors_to_run_, tasks, tasksTemp, timers, started, done_set, failed_set,
                       clock, handled>>
      /\ (handled' # handled /\ handled' # <<>>) =>
           /\ pc = "handle" /\ ctx_running = {}
           /\ \A a \in Range(actors_that_ran_) : did[a] # "NONE"
      /\ actors_to_run_' # actors_to_run_ =>
           /\ ctx_running = {}
           /\ pc \in {"run_all", "handle", "et_run", "et_done", "l397", "l417"}
    ]_vars

\* One context is still executing while another one is back with a simcall that
\* waits for maestro.
C3_Witness ==
  /\ pc = "run_all" /\ Cardinality(ctx_running) = 1
  /\ Len(exec_order) = 1 /\ did[exec_order[1]] \in Simcalls
  /\ exec_order[1] \in unhandled

\* C4: run() signals on_simulation_end once at most, and exactly once when it
\* has returned; it leaves its main loop only in a state where the time of the
\* last round is not greater than -1, no timer and no dated action is pending,
\* actors_to_run_ is empty and actor_list_ is empty, so the test before
\* on_simulation_end never finds a live actor.
C4_EndsOnceWhenNothingRemains ==
  /\ n_end <= 1
  /\ (n_end = 1) <=> (pc = "done")
  /\ pc \in {"l424", "thrown", "done"} =>
       /\ time <= -1
       /\ timers = {} /\ \A x \in started : x.finish < 0
       /\ actors_to_run_ = <<>>
       /\ actor_list_ = {}

\* The simulation is over, after the clock has moved.
C4_Witness == pc = "done" /\ n_end = 1 /\ clock > 0 /\ actors_to_destroy_ = <<>>

C6_NoEndAfterDeadlock == n_deadlock > 0 => n_end = 0

\* C6, amended: declaring a deadlock does not make run() fail. In the round of
\* the declaration maestro kills every live actor, which marks it to die and
\* puts it in the run queue, so the main loop goes on for the victims to run
\* and exit; after a deadlock run() never throws, and where it has returned it
\* has signalled on_simulation_end, with no actor left.
C6_DeadlockKillsAndGoesOn ==
  /\ (pc = "l422" /\ diag # <<>>) =>
       /\ actor_list_ # {}
       /\ \A a \in actor_list_ : wannadie[a] /\ a \in Range(actors_to_run_)
       /\ LoopAgain
  /\ n_deadlock > 0 =>
       /\ pc # "thrown"
       /\ pc = "done" => n_end = 1 /\ actor_list_ = {}

\* A deadlock was declared and the simulation has ended normally nevertheless.
C6_Witness == n_deadlock = 1 /\ pc = "done" /\ n_end = 1 /\ actors_to_run_ = <<>>

\* C7: a step that calls surf_solve, and any step that moves the clock, is taken
\* with actors_to_run_ empty, no user context executing and no issued simcall
\* left unhandled, every actor that was runnable at the beginning of the round
\* having been run.
C7_ClockMovesOnlyWithEmptyRunQueue ==
  [][((solved' /\ ~solved) \/ clock' # clock) =>
       /\ pc = "l383"
       /\ actors_to_run_ = <<>>
       /\ ctx_running = {}
       /\ unhandled = {}
       /\ Range(round_to_run) \subseteq round_ran]_vars

\* surf_solve has moved the clock in a round in which actors ran.
C7_Witness == pc = "l397" /\ solved /\ clock > round_clock /\ round_ran # {}

C9_ResourceSubRoundIffTimerOrActor ==
  [][/\ pc = "l383" =>
          IF TimerNext > -1 \/ actor_list_ # {}
          THEN /\ ~solved /\ solved'
               /\ clock' >= clock
               /\ TimerNext > -1 => clock' <= TimerNext
          ELSE /\ ~solved'
               /\ time' = -1
               /\ UNCHANGED <<clock, started, done_set, failed_set>>
     /\ pc # "l383" => ~(solved' /\ ~solved) /\ clock' = clock
    ]_vars

\* Late in a simulation (the clock has moved) a round has skipped surf_solve:
\* there was no timer and no actor.
C9_Witness ==
  /\ pc = "l397" /\ ~solved /\ time = -1 /\ clock > 0
  /\ actor_list_ = {} /\ timers = {}

\* C10: execute_tasks. Tasks get their ids in the order in which they are
\* enqueued; the tasks executed so far are 1, 2, 3, ... in that order, each once
\* (FIFO, those appended during the drain included). When execute_tasks returns,
\* the queue and its local vector are empty, every task ever enqueued has been
\* executed, and the value returned is true exactly when the queue was not
\* empty at the call.
C10_ExecuteTasksDrainsInFifoOrder ==
  /\ task_log = [i \in 1..Len(task_log) |-> i]
  /\ pc = "et_run" =>
       LET pending == SubSeq(tasksTemp, task_i, Len(tasksTemp)) \o tasks IN
         /\ et_nonempty
         /\ Len(pending) = next_task - 1 - Len(task_log)
         /\ \A i \in 1..Len(pending) : pending[i].id = Len(task_log) + i
  /\ pc = "et_done" =>
       /\ tasks = <<>> /\ tasksTemp = <<>>
       /\ Len(task_log) = next_task - 1
       /\ et_result <=> et_nonempty

\* A call of execute_tasks that found a task returns true after a second sweep,
\* for the task that the first one appended.
C10_Witness ==
  /\ pc = "et_done" /\ et_result /\ et_nonempty /\ et_sweeps >= 2
  /\ Len(task_log) >= 2

\* C11: the actor sub-round loop. Whenever its test is evaluated the task queue
\* is empty, so the loop goes on exactly while the run queue or the task queue
\* is not empty; when it has exited, actors_to_run_ and the task queue are both
\* empty; and in each iteration wake_all_waiting_actors is called only from a
\* state in which execute_tasks has just returned with the queue drained.
C11_SubRoundLoopDrainsRunQueueAndTasks ==
  /\ pc = "l383" => actors_to_run_ = <<>> /\ tasks = <<>> /\ tasksTemp = <<>>
  /\ (pc = "l296" \/ (pc = "et_done" /\ et_site = "l294")) =>
       /\ tasks = <<>> /\ tasksTemp = <<>>
       /\ SubRoundLoop <=> (actors_to_run_ # <<>> \/ tasks # <<>>)
  /\ (pc = "et_done" /\ et_site \in {"l370", "l373"}) =>
       /\ tasks = <<>> /\ tasksTemp = <<>>
       /\ Len(task_log) = next_task - 1

\* The loop has exited after iterations in which actors ran and tasks were
\* executed.
C11_Witness ==
  /\ pc = "l383" /\ et_site = "l373" /\ round_ran # {} /\ Len(task_log) >= 2
  /\ actors_to_run_ = <<>> /\ tasks = <<>>

C14_TrashEmptiedEachRound ==
  /\ round_dead = released \o actors_to_destroy_
  /\ NoDuplicate(round_dead)
  /\ Range(round_dead) \cap actor_list_ = {}
  /\ pc \in {"l415", "l417", "l422", "l424", "thrown", "done", "round"} =>
       actors_to_destroy_ = <<>>
  /\ \A p \in Pids :
       (p \notin actor_list_ /\ get_actor_by_pid(p) # 0) =>
          /\ get_actor_by_pid(p) = p
          /\ p \in Range(round_dead) /\ p \notin Range(released)
  /\ \A p \in Pids : p \in actor_list_ => get_actor_by_pid(p) = p

\* Two actors died in the round, the second of the run queue before the first,
\* and empty_trash has released them in that order.
C14_Witness ==
  /\ pc = "l422" /\ Len(released) = 2 /\ released[1] > released[2]
  /\ actors_to_destroy_ = <<>>
  /\ get_actor_by_pid(released[1]) = 0

\* The terminal states of an activity.
Terminal == {"DONE", "FAILED", "CANCELED", "SRC_TIMEOUT", "DST_TIMEOUT"}

\* C15: once started, a Raw synchronization has one sleep action, of timeout_
\* seconds, on its host, that points back to the activity; it has none before.
\* post() is called on an action that is FINISHED or FAILED: it leaves the
\* activity in SRC_TIMEOUT in the first case and in FAILED in the second,
\* releases the action, and answers the waiting simcall.
C15_RawBindsSleepAndMirrorsIt ==
  /\ [](surf_action_ # NoAction =>
          /\ surf_action_.duration = timeout_
          /\ surf_action_.host = host_
          /\ surf_action_.activity = "this"
          /\ simcalls_ = <<issuer_.pid>>)
  /\ [](("start" \notin Range(calls)) <=> (surf_action_ = NoAction /\ n_post = 0))
  /\ [][n_post' # n_post =>
          /\ surf_action_.state \in {"FINISHED", "FAILED"}
          /\ surf_action_.state = "FINISHED" => state_' = "SRC_TIMEOUT"
          /\ surf_action_.state = "FAILED" => state_' = "FAILED"
          /\ surf_action_' = NoAction
          /\ issuer_'.call_ = "NONE" /\ raw_run_list' = Append(raw_run_list, issuer_.pid)]_vars

\* A synchro with the longest timeout has been started, its sleep has elapsed
\* and post() has reported the timeout.
C15_Witness ==
  /\ calls = <<"start", "post">> /\ timeout_ = MaxDur
  /\ state_ = "SRC_TIMEOUT" /\ issuer_.call_ = "NONE"

\* C16: RawImpl::finish. When the activity is FAILED the issuer is marked to die
\* and holds a HostFailureException, and only then. Whatever the outcome,
\* finish_callback_ has run once, the issuer waits on nothing, and its simcall
\* has been answered once: it is once in the run list.
C16_RawFinishDeliversOutcome ==
  /\ n_post <= 1 /\ n_finish_callback = n_post
  /\ n_post = 0 =>
       /\ ~issuer_.wannadie /\ issuer_.exception_ = "none"
       /\ raw_run_list = <<>> /\ issuer_.call_ = "LOCK"
  /\ n_post = 1 =>
       /\ state_ \in {"FAILED", "SRC_TIMEOUT"}
       /\ issuer_.wannadie <=> state_ = "FAILED"
       /\ issuer_.exception_ = IF state_ = "FAILED" THEN "HostFailureException" ELSE "none"
       /\ issuer_.waiting_synchro_ = "nullptr"
       /\ issuer_.call_ = "NONE"
       /\ simcalls_ = <<>>
       /\ raw_run_list = <<issuer_.pid>>

\* The host failed under a synchro without timeout: the waiting actor was
\* answered with the failure.
C16_Witness ==
  /\ n_post = 1 /\ timeout_ = -1 /\ state_ = "FAILED"
  /\ issuer_.wannadie /\ issuer_.exception_ = "HostFailureException"
  /\ raw_run_list = <<issuer_.pid>>

C18_RawTerminalOnceAndForAll ==
  /\ [](/\ n_post <= 1
        /\ Len(SelectSeq(calls, LAMBDA c : c = "post")) = n_post
        /\ state_ \in {"WAITING", "FAILED", "SRC_TIMEOUT"}
        /\ (n_post = 1) <=> (state_ \in Terminal)
        /\ n_post = 1 => surf_action_ = NoAction)
  /\ [][(state_ \in Terminal) => UNCHANGED state_]_vars

\* A posted synchro on which cancel, suspend and resume were then called.
C18_Witness ==
  /\ calls = <<"start", "post", "cancel", "suspend", "resume">>
  /\ state_ = "SRC_TIMEOUT" /\ n_post = 1

\* The last of the calls made on the Raw synchronization, "" when there is none.
LastCall == IF calls = <<>> THEN "" ELSE calls[Len(calls)]

C20_SealCreatesThreeConstraints ==
  /\ [](Len(maxmin_system) = IF disk.sealed_ THEN 3 ELSE 0)
  /\ [](disk.sealed_ =>
          {disk.constraint_read_, disk.constraint_write_, disk.constraint_} = 1..3)
  /\ [][(~disk.sealed_ /\ disk_calls' = Append(disk_calls, "seal")) =>
          /\ disk'.sealed_
          /\ Len(maxmin_system') = Len(maxmin_system) + 3
          /\ maxmin_system'[disk'.constraint_read_].bound = disk.read_bw_.peak
          /\ maxmin_system'[disk'.constraint_write_].bound = disk.write_bw_.peak
          /\ maxmin_system'[disk'.constraint_].bound = Max(disk.read_bw_.peak, disk.write_bw_.peak)
          /\ disk'.read_bw_ = disk.read_bw_ /\ disk'.write_bw_ = disk.write_bw_]_vars
  /\ [][(disk.sealed_ /\ disk_calls' = Append(disk_calls, "seal")) =>
          UNCHANGED <<disk, maxmin_system, disk_signals>>]_vars

\* A disk that writes faster than it reads has been sealed twice.
C20_Witness ==
  /\ disk_calls = <<"seal", "seal">> /\ disk.sealed_
  /\ disk.read_bw_.peak < disk.write_bw_.peak
  /\ Len(maxmin_system) = 3
  /\ maxmin_system[disk.constraint_].bound = disk.write_bw_.peak
  /\ maxmin_system[disk.constraint_read_].bound = disk.read_bw_.peak

\* The constraints a variable is attached to.
ConstraintsOf(var) == {var.cnsts[i].cnst : i \in 1..Len(var.cnsts)}

\* C21: each Io action has a variable of its own, of sharing penalty 1 and
\* without bound, made when the action is: there are as many variables as
\* actions. The variable is attached twice, with coefficient 1: to the general
\* constraint of the disk and to its read constraint for a READ, to its write
\* constraint for a WRITE. It is attached to nothing else, so that no READ is on
\* the write constraint and no WRITE on the read constraint.
C21_IoStartBindsTwoConstraints ==
  /\ Len(lmm_variables) = Len(io_actions)
  /\ \A i \in 1..Len(io_actions) :
       LET a == io_actions[i]
           v == lmm_variables[a.variable]
       IN /\ a.variable = i /\ v.id = i
          /\ a.sharing_penalty_ = 1 /\ v.bound = -1
          /\ v.sharing_penalty = IF a.suspended_ \/ a.state # "STARTED" THEN v.sharing_penalty ELSE 1
          /\ Len(v.cnsts) = 2
          /\ \A k \in 1..2 : v.cnsts[k].coef = 1
          /\ ConstraintsOf(v) =
               {disk.constraint_,
                IF a.type = "READ" THEN disk.constraint_read_ ELSE disk.constraint_write_}
          /\ a.type = "READ" => disk.constraint_write_ \notin ConstraintsOf(v)
          /\ a.type = "WRITE" => disk.constraint_read_ \notin ConstraintsOf(v)

\* A READ and then a WRITE have been started on a sealed disk.
C21_Witness ==
  /\ Len(io_actions) = 2
  /\ io_actions[1].type = "READ" /\ io_actions[2].type = "WRITE"
  /\ io_actions[2].cost = MaxSize
  /\ ConstraintsOf(lmm_variables[1]) = {disk.constraint_, disk.constraint_read_}
  /\ ConstraintsOf(lmm_variables[2]) = {disk.constraint_, disk.constraint_write_}

Load(k) == SumFn([i \in 1..Len(lmm_vs) |-> Coef(lmm_vs[i], k) * lmm_values[i]])

\* The capacity of the constraint k, times the scale of the shares.
Capacity(k) == lmm_bounds[k] * LmmScale(Len(lmm_vs))

\* The three flows X on L1, Y on L1 and L2, Z on L2, with L1 = 10 and L2 = 5.
ThreeFlows ==
  /\ Len(lmm_vs) = 3 /\ lmm_bounds[1] = 10 /\ lmm_bounds[2] = 5
  /\ ConstraintsOf(lmm_vs[1]) = {1}
  /\ ConstraintsOf(lmm_vs[2]) = {1, 2}
  /\ ConstraintsOf(lmm_vs[3]) = {2}
  /\ \A i \in 1..3 : lmm_vs[i].sharing_penalty = 1

\* C27: once a system is solved, no constraint is given out beyond its
\* capacity; a variable of weight 0 has no share; every other variable has a
\* positive share and is attached to a constraint that is used up, so that a
\* constraint with capacity left has no variable that could use more. The
\* three flows get 7.5, 2.5 and 2.5.
C27_SolverFeasibleAndMaxMin ==
  lmm_values # <<>> =>
    /\ \A k \in 1..NCnst : Load(k) <= Capacity(k)
    /\ \A i \in 1..Len(lmm_vs) :
         IF lmm_vs[i].sharing_penalty = 0 THEN lmm_values[i] = 0
         ELSE /\ lmm_values[i] > 0
              /\ \E k \in ConstraintsOf(lmm_vs[i]) : Load(k) = Capacity(k)
    /\ ThreeFlows => /\ 2 * lmm_values[1] = 15 * LmmScale(3)
                     /\ 2 * lmm_values[2] = 5 * LmmScale(3)
                     /\ 2 * lmm_values[3] = 5 * LmmScale(3)

\* The three flows are solved.
C27_Witness ==
  /\ ThreeFlows /\ lmm_values # <<>>
  /\ Load(1) = Capacity(1) /\ Load(2) = Capacity(2)
  /\ lmm_values[1] > lmm_values[2]

\* C30: on a sealed disk, the bound of the read constraint is the read
\* bandwidth, the bound of the write constraint the write bandwidth and the
\* bound of the aggregate constraint the larger of the two, whatever
\* set_read_bandwidth and set_write_bandwidth calls were made; and
\* set_read_bandwidth leaves the write constraint as it is, set_write_bandwidth
\* the read constraint.
C30_ConstraintsFollowBandwidths ==
  /\ [](disk.sealed_ =>
          /\ maxmin_system[disk.constraint_read_].bound = disk.read_bw_.peak * disk.read_bw_.scale
          /\ maxmin_system[disk.constraint_write_].bound = disk.write_bw_.peak * disk.write_bw_.scale
          /\ maxmin_system[disk.constraint_].bound =
               Max(disk.read_bw_.peak * disk.read_bw_.scale,
                   disk.write_bw_.peak * disk.write_bw_.scale))
  /\ [][(disk.sealed_ /\ disk_calls' = Append(disk_calls, "set_read_bandwidth")) =>
          maxmin_system'[disk.constraint_write_] = maxmin_system[disk.constraint_write_]]_vars
  /\ [][(disk.sealed_ /\ disk_calls' = Append(disk_calls, "set_write_bandwidth")) =>
          maxmin_system'[disk.constraint_read_] = maxmin_system[disk.constraint_read_]]_vars

\* wake_all_waiting_actors is the next thing run() does: after an
\* execute_tasks() other than the one whose result ends the do-while of line 373.
WakeIsNext == pc = "et_done" /\ ~(et_site = "l373" /\ ~et_result)

\* The actions of the set of a model (kind 1: failed, kind 2: done) that have an
\* owning activity, in the order of the set.
WithActivity(m, kind) ==
  SelectSeq(IF kind = 1 THEN failed_set[m] ELSE done_set[m], LAMBDA x : x.activity # 0)

\* The number of posts made before the set of that kind of the model m is served.
RECURSIVE PostsBefore(_, _)
PostsBefore(m, kind) ==
  IF kind = 2 THEN PostsBefore(m, 1) + Len(WithActivity(m, 1))
  ELSE IF m = 1 THEN 0
  ELSE PostsBefore(m - 1, 2) + Len(WithActivity(m - 1, 2))

\* C29: wake_all_waiting_actors serves the models in registration order, the
\* failed actions of a model before its done ones, each set in its order: the
\* owner of each action that has an activity is answered exactly once, at the
\* place that order gives it in the run queue; the actions without activity
\* answer nobody; and the done and failed sets of every model are empty
\* afterwards.
C29_WakeServesFailedThenDoneInModelOrder ==
  [][WakeIsNext =>
       LET posts == PostsBefore(NModels, 2) + Len(WithActivity(NModels, 2))
       IN  /\ done_set' = EmptySets /\ failed_set' = EmptySets
           /\ Len(actors_to_run_') = Len(actors_to_run_) + posts
           /\ SubSeq(actors_to_run_', 1, Len(actors_to_run_)) = actors_to_run_
           /\ \A m \in Models, kind \in {1, 2} :
                \A i \in 1..Len(WithActivity(m, kind)) :
                  LET owner == WithActivity(m, kind)[i].activity
                  IN  /\ actors_to_run_'[Len(actors_to_run_) + PostsBefore(m, kind) + i] = owner
                      /\ simcall'[owner] = "NONE"
                      /\ waiting_synchro_'[owner] = 0
           /\ \A a \in Pids :
                (\A m \in Models, kind \in {1, 2} :
                   \A i \in 1..Len(WithActivity(m, kind)) : WithActivity(m, kind)[i].activity # a)
                => simcall'[a] = simcall[a] /\ waiting_synchro_'[a] = waiting_synchro_[a]]_vars

\* The wake-up after a solve has answered two actors, the one of higher pid first,
\* and left the sets empty.
C29_Witness ==
  /\ pc \in {"l397", "l404"} /\ solved /\ clock > round_clock
  /\ done_set = EmptySets /\ failed_set = EmptySets
  /\ Len(actors_to_run_) = 2 /\ actors_to_run_[1] > actors_to_run_[2]
  /\ \A i \in 1..2 : simcall[actors_to_run_[i]] = "NONE" /\ ~wannadie[actors_to_run_[i]]

\* A sequence of pids in increasing order.
SortedByPid(q) == \A i, j \in 1..Len(q) : i < j => q[i] < q[j]

\* No actor has been killed so far: a killed actor is marked to die until it is
\* dead, and here every actor ever created is alive and unmarked. There is no
\* daemon either, that the end of the others would kill.
NoKillSoFar ==
  /\ actor_list_ = 1..(next_pid - 1)
  /\ daemons_ = {}
  /\ \A a \in Pids : ~wannadie[a]
  /\ n_deadlock = 0

\* C26: as long as no actor has been killed, the run queue is in increasing pid
\* order whenever a sub-round begins, that is when run_all_actors() is called.
C26_RunQueueSortedByPid ==
  (pc = "run_all" /\ NoKillSoFar) => SortedByPid(to_run_at_call)

\* C24: the constraint of a sealed Cpu has a bound of core_count_ times the
\* speed of the current p-state times speed_.scale, and speed_.peak is the
\* speed of the current p-state, whatever the order of the set_core_count,
\* set_pstate and seal calls.
C24_CapacityFollowsPstate ==
  cpu.sealed_ =>
    /\ 0 <= cpu.pstate_ /\ cpu.pstate_ < Len(cpu.speed_per_pstate_)
    /\ cpu.speed_.peak = cpu.speed_per_pstate_[cpu.pstate_ + 1]
    /\ cpu.constraint_[1].bound =
         cpu.core_count_ * cpu.speed_per_pstate_[cpu.pstate_ + 1] * cpu.speed_.scale

FatTree(levels, down, up, count, bandwidth, latency) ==
  [levels |-> levels, down |-> down, up |-> up, count |-> count,
   bandwidth |-> bandwidth, latency |-> latency]

\* The descriptions for which the tests require std::invalid_argument.
InvalidParams ==
  {FatTree(0, <<4, 4>>, <<1, 2>>, <<1, 2>>, 1000000000, 10),
   FatTree(2, <<4>>, <<1, 2>>, <<1, 2>>, 1000000000, 10),
   FatTree(2, <<4, 4>>, <<1>>, <<1, 2>>, 1000000000, 10),
   FatTree(2, <<4, 4>>, <<1, 2>>, <<1>>, 1000000000, 10),
   FatTree(2, <<4, 0>>, <<1, 2>>, <<1, 2>>, 1000000000, 10),
   FatTree(2, <<4, 4>>, <<0, 2>>, <<1, 2>>, 1000000000, 10),
   FatTree(2, <<4, 4>>, <<1, 2>>, <<1, 0>>, 1000000000, 10),
   FatTree(2, <<4, 4>>, <<1, 2>>, <<1, 2>>, 0, 10),
   FatTree(2, <<4, 4>>, <<1, 2>>, <<1, 2>>, 1000000000, -10)}

\* The description of the test that requires a zone.
CreatingZone == FatTree(2, <<4, 4>>, <<1, 2>>, <<1, 2>>, 1000000000, 10)

C23_LazyAndFullFinishTheSame ==
  /\ lazy_done = full_done
  /\ Len(lazy_actions) = Len(full_actions)
  /\ \A i \in 1..Len(full_actions) : lazy_actions[i].state = full_actions[i].state
  /\ \A e \in action_heap :
       /\ full_actions[e.id].state = "STARTED"
       /\ e.date = QAdd(model_now,
                        EventDelay(full_actions[e.id].remains, lazy_actions[e.id].last_value,
                                   full_actions[e.id].max_duration))

\* Both models have finished one action at the end of its maximal duration and
\* then the other at the end of its work.
C23_Witness ==
  /\ Len(full_actions) = 2 /\ Cardinality(lazy_done) = 2 /\ lazy_done = full_done
  /\ \E e, f \in full_done :
       /\ e.date # f.date /\ QLe(e.date, f.date)
       /\ full_actions[e.id].remains.num > 0
       /\ full_actions[f.id].remains.num = 0

\* C31: an update of the disk model visits each action of the started set once,
\* with the same delay, and no other action: what remains of it and of its
\* maximal duration is brought down once, and it is FINISHED exactly when
\* nothing remains of it while its variable has a positive penalty, or when it
\* has a maximal duration that is down to 0; else it stays STARTED. So an action
\* whose variable has penalty 0 and that has no maximal duration stays STARTED,
\* and the action that follows a finished one is visited all the same. The
\* full update of the Cpu model finishes its started actions on the same test
\* and leaves the others alone.
C31_UpdateFinishesOnWorkOrDuration ==
  /\ [][io_updates' # io_updates =>
          \E delta \in Delays(io_actions, lmm_variables', LmmScale(Len(lmm_variables))) :
            \A i \in 1..Len(io_actions) :
              LET a == io_actions[i]
                  b == io_actions'[i]
                  v == lmm_variables'[a.variable]
              IN IF a.state # "STARTED" THEN b = a
                 ELSE /\ b.remains = update_remains(a.remains,
                                        Rint(v.value * delta.num,
                                             LmmScale(Len(lmm_variables)) * delta.den))
                      /\ b.max_duration = update_max_duration(a.max_duration, delta)
                      /\ b.state \in {"STARTED", "FINISHED"}
                      /\ b.state = "FINISHED" <=>
                            \/ b.remains <= 0 /\ v.sharing_penalty > 0
                            \/ b.max_duration # -1 /\ b.max_duration <= 0
                      /\ (v.sharing_penalty = 0 /\ b.max_duration = -1) => b.state = "STARTED"]_vars
  /\ [][advances' # advances =>
          \A i \in 1..Len(full_actions) :
            LET a == full_actions[i]
                b == full_actions'[i]
            IN IF a.state # "STARTED" THEN b = a
               ELSE /\ b.state \in {"STARTED", "FINISHED"}
                    /\ b.state = "FINISHED" <=>
                          \/ QLe(b.remains, Q(0, 1)) /\ a.penalty > 0
                          \/ b.max_duration # NO_MAX_DURATION /\ QLe(b.max_duration, Q(0, 1))]_vars

\* One update of the disk model has finished two Ios with work: the second was
\* visited after the first had left the started set.
C31_Witness ==
  /\ io_updates = 1 /\ Len(io_actions) = 2
  /\ \A i \in 1..2 : io_actions[i].state = "FINISHED" /\ io_actions[i].cost > 0

C33_PstateIsValidIndex ==
  cpu_calls # <<>> =>
    0 <= cpu.pstate_ /\ cpu.pstate_ < Len(cpu.speed_per_pstate_)

\* The links of the route that go from node to node.
TorusLinks(route) == SelectSeq(route.link_list_, LAMBDA l : l.link.kind = "torus")

\* Where the links lead from the node, each taken from its `from` to its `to`
\* when it is used up and backwards when it is used down; -1 when a link does
\* not start where the link before it ended.
RECURSIVE PathEnd(_, _)
PathEnd(node, links) ==
  IF links = <<>> THEN node
  ELSE LET l == Head(links)
       IN  IF node # (IF l.up THEN l.link.from ELSE l.link.to) THEN -1
           ELSE PathEnd(IF l.up THEN l.link.to ELSE l.link.from, Tail(links))

\* The sum over the dimensions of min(|s_j - t_j|, d_j - |s_j - t_j|).
RECURSIVE ShortestHops(_, _, _, _)
ShortestHops(dimensions, s, t, j) ==
  IF j > Len(dimensions) THEN 0
  ELSE LET sj == Coord(dimensions, s, j)
           tj == Coord(dimensions, t, j)
           d == IF sj >= tj THEN sj - tj ELSE tj - sj
       IN  (IF d <= dimensions[j] - d THEN d ELSE dimensions[j] - d)
           + ShortestHops(dimensions, s, t, j + 1)

\* C34: a get_local_route of a torus terminates. Between two different nodes
\* that are not routers, the links from node to node of the route lead from
\* the source to the destination, each starting where the one before ended;
\* they are in increasing order of dimension, and there are as many of them as
\* the sum over the dimensions of the shorter of the two ways round. From a
\* node to itself in a zone with loopbacks the route is the loopback of the
\* node and nothing else. With a router at either end the route is empty.
C34_TorusRouteIsShortestDimensionOrdered ==
  torus_route.called =>
    LET src == torus_route.src
        dst == torus_route.dst
        route == torus_route.route
        links == TorusLinks(route)
    IN  /\ route.terminated
        /\ (src.is_router \/ dst.is_router) => route.link_list_ = <<>>
        /\ (~src.is_router /\ ~dst.is_router /\ src.id = dst.id /\ torus.has_loopback_) =>
              route.link_list_ = <<[link |-> [kind |-> "loopback", from |-> src.id, dim |-> 0,
                                              to |-> src.id],
                                    up |-> TRUE]>>
        /\ (~src.is_router /\ ~dst.is_router /\ src.id # dst.id) =>
              /\ PathEnd(src.id, links) = dst.id
              /\ \A k \in 1..(Len(links) - 1) : links[k].link.dim <= links[k + 1].link.dim
              /\ Len(links) = ShortestHops(torus.dimensions_, src.id, dst.id, 1)

\* A route of three links at least in a torus of two dimensions, which goes
\* down in the first dimension, around its end, and up in the second.
C34_Witness ==
  /\ torus_route.called /\ Len(torus.dimensions_) = 2
  /\ ~torus_route.src.is_router /\ ~torus_route.dst.is_router
  /\ LET links == TorusLinks(torus_route.route)
     IN  /\ Len(links) >= 3
         /\ ~links[1].up /\ links[1].link.dim = 1
         /\ links[1].link.from > links[1].link.to
         /\ links[Len(links)].up /\ links[Len(links)].link.dim = 2

\* The four calls of the independence theorem.
FourCalls == {"COMM_ISEND", "COMM_IRECV", "COMM_TEST", "COMM_WAIT"}

\* C35: simcall_check_dependency gives the same answer for (req1, req2) and for
\* (req2, req1); the answer is false when the two simcalls have the same
\* issuer; it is true when the issuers differ and one of the simcalls is not an
\* ISEND, IRECV, TEST or WAIT, or is a WAIT with a positive timeout.
C35_DependencyIsSymmetric ==
  dep_result # <<>> =>
    /\ dep_result[1] = dep_result[2]
    /\ simcall_check_dependency(dep_req1, dep_req2) = simcall_check_dependency(dep_req2, dep_req1)
    /\ dep_req1.issuer_ = dep_req2.issuer_ => dep_result = <<FALSE, FALSE>>
    /\ (/\ dep_req1.issuer_ # dep_req2.issuer_
        /\ \E r \in {dep_req1, dep_req2} :
              r.call_ \notin FourCalls \/ (r.call_ = "COMM_WAIT" /\ r.timeout > 0))
         => dep_result = <<TRUE, TRUE>>

\* A wait without timeout of one actor and an isend of another on another
\* mailbox, given in that order, which is not the one of their calls: they are
\* independent in both orders.
C35_Witness ==
  /\ dep_result = <<FALSE, FALSE>>
  /\ dep_req1.call_ = "COMM_WAIT" /\ dep_req1.timeout <= 0
  /\ dep_req2.call_ = "COMM_ISEND" /\ dep_req2.issuer_ # dep_req1.issuer_
  /\ dep_req2.mbox # dep_req1.comm[1].mbox_cpy
  /\ dep_req2.issuer_ = dep_req1.comm[1].src_actor_

\* The ranks (from 0) of the transitions returned so far, in order.
ChosenRanks ==
  LET returned == SelectSeq(mc_chosen, LAMBDA c : c.req)
  IN  [k \in 1..Len(returned) |-> returned[k].times_considered_]

\* C36: the calls of MC_state_choose_request_for_process for an actor in a
\* waitany or testany over n communications return a request exactly when the
\* transition has a times_considered_ other than -1, and then it is the rank of
\* a communication that is enabled; the ranks returned are strictly
\* increasing. The actor is marked done exactly once its times_considered_
\* has reached n in a call, and then every enabled rank has been returned.
C36_ChoosesEnabledRanksInOrder ==
  LET n == Len(mc_actor.comms)
      ranks == ChosenRanks
  IN  /\ \A k \in 1..Len(mc_chosen) :
            /\ mc_chosen[k].req <=> mc_chosen[k].times_considered_ # -1
            /\ mc_chosen[k].req =>
                  /\ mc_chosen[k].times_considered_ \in 0..(n - 1)
                  /\ mc_actor.comms[mc_chosen[k].times_considered_ + 1]
      /\ \A k \in 1..(Len(ranks) - 1) : ranks[k] < ranks[k + 1]
      /\ mc_procstate.times_considered_ <= n
      /\ mc_procstate.done <=>
            (mc_chosen # <<>> /\ actor_is_enabled(mc_actor) /\ mc_procstate.times_considered_ >= n)
      /\ mc_procstate.done =>
            {ranks[k] : k \in 1..Len(ranks)} = {i \in 0..(n - 1) : mc_actor.comms[i + 1]}

\* A waitany over four communications of which the first and the third are
\* enabled: they were returned in two calls, and a third call that returned
\* nothing has marked the actor done.
C36_Witness ==
  /\ mc_actor = [call_ |-> "COMM_WAITANY", comms |-> <<TRUE, FALSE, TRUE, FALSE>>]
  /\ mc_procstate.done
  /\ mc_chosen = <<[req |-> TRUE, times_considered_ |-> 0], [req |-> TRUE, times_considered_ |-> 2],
                   [req |-> FALSE, times_considered_ |-> -1]>>

\* C37: add_actor_to_run_list leaves the run queue as it is for an actor that
\* is in it, and appends any other actor at its end; the run queue never holds
\* an actor twice, nor does the list of the actors that run_all_actors runs,
\* so that no actor is run twice in a sub-round.
C37_RunListHasNoDuplicate ==
  /\ \A a \in Pids :
        LET q == add_actor_to_run_list(actors_to_run_, a)
        IN  /\ a \in Range(actors_to_run_) => q = actors_to_run_
            /\ a \notin Range(actors_to_run_) =>
                  /\ Len(q) = Len(actors_to_run_) + 1 /\ q[Len(q)] = a
                  /\ SubSeq(q, 1, Len(actors_to_run_)) = actors_to_run_
            /\ NoDuplicate(actors_to_run_) => NoDuplicate(q)
  /\ NoDuplicate(actors_to_run_)
  /\ NoDuplicate(actors_that_ran_)
  /\ NoDuplicate(to_run_at_call)
  /\ NoDuplicate(exec_order)

\* The actor 1 was answered in this sub-round, which put it in the run queue,
\* and was then killed by the actor 2, which asked for it in the run queue
\* again: it is in it once.
C37_Witness ==
  /\ pc = "handle" /\ handled = <<1, 2>>
  /\ simcall[1] = "NONE" /\ wannadie[1] /\ ~wannadie[2]
  /\ actors_to_run_ = <<1, 2>>

\* The engine is about to post the synchro: its sleep action sits in the failed
\* or in the done set of its model and is bound to the activity.
RawPostDue ==
  /\ surf_action_.state \in {"FAILED", "FINISHED"}
  /\ surf_action_.activity # "nullptr"

RegistryModels == {models_prio_[n] : n \in DOMAIN models_prio_}

\* C39: EngineImpl::add_model registers the model exactly when its name is not
\* a key of models_prio_ yet and the name of every listed dependency is one;
\* then the model is pushed at the end of models_ and bound to its name in
\* models_prio_, nothing else changes. Otherwise an assertion fails and models_
\* and models_prio_ are as before the call. At all times models_ and
\* models_prio_ hold the same models, each under its own name, no two models
\* of models_ have the same name, and models_ holds them in registration order.
C39_AddModelKeepsRegistryConsistent ==
  /\ [](/\ Range(models_) = RegistryModels
        /\ Len(models_) = Cardinality(DOMAIN models_prio_)
        /\ \A n \in DOMAIN models_prio_ : model_name[models_prio_[n]] = n
        /\ \A i, j \in 1..Len(models_) : model_name[models_[i]] = model_name[models_[j]] => i = j)
  /\ [][add_model_call' # add_model_call =>
          LET c    == add_model_call'
              name == model_name[c.model]
              ok   == /\ name \notin DOMAIN models_prio_
                      /\ \A dep \in c.dependencies : model_name[dep] \in DOMAIN models_prio_
          IN  /\ (c.failed = "none") <=> ok
              /\ ok => /\ models_' = Append(models_, c.model)
                       /\ DOMAIN models_prio_' = DOMAIN models_prio_ \cup {name}
                       /\ models_prio_'[name] = c.model
                       /\ \A n \in DOMAIN models_prio_ : models_prio_'[n] = models_prio_[n]
              /\ ~ok => UNCHANGED <<models_, models_prio_>>]_vars

\* Three models were registered, the second with the first as dependency and
\* the third with both.
C39_Witness ==
  /\ models_ = <<3, 1, 2>>
  /\ add_model_call = [model |-> 2, dependencies |-> {1, 3}, failed |-> "none"]
  /\ DOMAIN models_prio_ = ModelNames

\* The changes of a history: its elements with their successor, where the two differ.
Transitions(h) ==
  SelectSeq([i \in 1..(Len(h) - 1) |-> [previous |-> h[i], new |-> h[i + 1]]],
            LAMBDA p : p.previous # p.new)

\* Whether the disk was on at its creation and after each of the calls made on it.
DiskOnHistory == <<TRUE>> \o [i \in 1..Len(disk_calls) |-> disk_calls[i] = "turn_on"]

\* C40: the state signals fire once per actual change of state. turn_off on a
\* disk that is off and turn_on on a disk that is on change nothing and emit no
\* Disk::on_state_change; any other turn_on or turn_off flips the disk and emits
\* one. DiskAction::set_state with the state of the action changes nothing and
\* emits no DiskAction::on_state_change; with another state it sets it and emits
\* one signal with the previous and the new state. After any sequence of calls
\* the signals emitted are the changes of state that took place, in order.
C40_SignalsCountStateChanges ==
  /\ [](/\ disk.is_on_ = DiskOnHistory[Len(DiskOnHistory)]
        /\ disk_signals = Len(Transitions(DiskOnHistory))
        /\ disk_action_signals = Transitions(disk_action_states))
  /\ [][/\ disk_calls' # disk_calls =>
             LET name == disk_calls'[Len(disk_calls')]
             IN  IF disk.is_on_ = (name = "turn_on")
                 THEN UNCHANGED <<disk, disk_signals>>
                 ELSE /\ disk'.is_on_ = ~disk.is_on_
                      /\ disk_signals' = disk_signals + 1
        /\ disk_action_states' # disk_action_states =>
             LET previous_state == disk_action_states[Len(disk_action_states)]
                 state          == disk_action_states'[Len(disk_action_states')]
             IN  IF state = previous_state
                 THEN UNCHANGED disk_action_signals
                 ELSE disk_action_signals' =
                        Append(disk_action_signals, [previous |-> previous_state, new |-> state])]_vars

\* The disk was turned off twice and on twice, and set_state was called on a
\* started action with STARTED, with FINISHED and with FINISHED again: two
\* signals of the disk, one of the action.
C40_Witness ==
  /\ disk_calls = <<"turn_off", "turn_off", "turn_on", "turn_on">>
  /\ disk_signals = 2 /\ disk.is_on_
  /\ disk_action_states = <<"STARTED", "STARTED", "FINISHED", "FINISHED">>
  /\ disk_action_signals = <<[previous |-> "STARTED", new |-> "FINISHED"]>>


====
